---- MODULE Spec2Model ----
(***************************************************************************)
(* BibMap: the one-shot schema migrator (scripts/migrate_user_ids.py) and  *)
(* the legend/taxonomy matching queries of the node router                 *)
(* (backend/app/routers/nodes.py), modelled as state machines.             *)
(*                                                                         *)
(* SpecMig   - the migrator: its functions called directly (as the tests   *)
(*             do) and main() as a step process over one SQLite file.      *)
(* SpecMatch - the REST handlers that write references, media and nodes    *)
(*             and the four matching queries, over one map with one node.  *)
(***************************************************************************)
EXTENDS Integers, Sequences, FiniteSets, TLC

VARIABLES
    db,         \* the SQLite file as the script's connection sees it
    fileExists, \* os.path.exists(db_path)
    backups,    \* the backup copies made so far (content of each)
    pc,         \* main(): the statement group it is at
    args,       \* main(): [dry_run, no_backup]
    dbAtStart,  \* history: db when the current main() started
    last,       \* history: the last migrator function call
    issues,     \* main(): verify_foreign_keys' result
    exitCode,   \* main(): the process exit code, -1 while none
    runs,       \* history: main() runs completed
    backupsAtStart, \* history: Len(backups) when the current main() started
    firstLive,  \* history: <<db>> after the first completed live main()
    users,      \* users table: id -> [role, is_active]
    taxonomies, \* taxonomies table: id -> [user_id, is_global]
    bibmaps,    \* bibmaps table: id -> [user_id, is_published]
    nodes,      \* nodes table: id -> [bibmap_id, background_color, taxonomies]
    connections, \* connections table: id -> [bibmap_id, source_node_id,
                \*                           target_node_id]
    references, \* references table: id -> [bibtex_key, legend_category,
                \*                          user_id, taxonomies]
    media,      \* media table: id -> [legend_category, user_id, taxonomies]
    resp,       \* the response to the last request: [op, user, id, status, body,
                \* request]
    settings,   \* user_settings table: user id -> the stored preferences
    inflight,   \* register calls between their queries and their commit
    oauth_states, \* routers/auth.py oauth_states: the states not yet used
    callbacks,  \* google_callback calls waiting for Google's answers
    history     \* history: the user ids tokens were issued for, the number of
                \* OAuth states issued, the states accepted

migVars == <<db, fileExists, backups, pc, args, dbAtStart, last, issues,
             exitCode, runs, backupsAtStart, firstLive>>

apiVars == <<users, taxonomies, bibmaps, nodes, connections, references, media,
             resp>>

authVars == <<settings, inflight, oauth_states, callbacks, history>>

vars == <<migVars, apiVars, authVars>>

-----------------------------------------------------------------------------
(* Bounds *)

\* Rows in the whole database file (bibmaps + references + taxonomies).
MaxRows == 1
\* main() runs in one behaviour.
MaxRuns == 2
\* Taxonomies that exist while the matching queries are served.
MaxTaxonomies == 1
\* The largest id given to a map, a node and a connection.
MaxBibmaps == 2
MaxNodes == 3
MaxConnections == 1
\* Entries in one BibTeX import, and the largest id given to a reference by
\* an import.
MaxEntries == 2
MaxReferences == 3

-----------------------------------------------------------------------------
(* SQLite values: NULL, INTEGER and TEXT storage classes.  A text is the    *)
(* sequence of its characters.                                              *)

SqlNull == [t |-> "null", i |-> 0, s |-> <<>>]
SqlInt(n) == [t |-> "integer", i |-> n, s |-> <<>>]
SqlText(str) == [t |-> "text", i |-> 0, s |-> str]

Digits == {"0", "1", "2", "3", "4", "5", "6", "7", "8", "9"}

DigitVal(ch) ==
    CASE ch = "0" -> 0 [] ch = "1" -> 1 [] ch = "2" -> 2 [] ch = "3" -> 3
      [] ch = "4" -> 4 [] ch = "5" -> 5 [] ch = "6" -> 6 [] ch = "7" -> 7
      [] ch = "8" -> 8 [] ch = "9" -> 9

\* The value of the longest prefix of digits of str, read left to right
\* with the value acc read so far; 0 when there is none.
RECURSIVE DigitPrefix(_, _)
DigitPrefix(str, acc) ==
    IF str = <<>> \/ Head(str) \notin Digits
    THEN acc
    ELSE DigitPrefix(Tail(str), acc * 10 + DigitVal(Head(str)))

\* CAST(v AS INTEGER): a text gives the integer its longest numeric prefix
\* spells, 0 without one; NULL stays NULL.
CastInteger(v) ==
    CASE v.t = "null" -> SqlNull
      [] v.t = "integer" -> v
      [] v.t = "text" -> SqlInt(DigitPrefix(v.s, 0))

\* Whether a text is a well-formed integer literal: what SQLite's numeric
\* affinity converts before comparing a TEXT column with an INTEGER one.
LooksInteger(str) == str # <<>> /\ \A k \in DOMAIN str : str[k] \in Digits

\* v = id for an INTEGER column id (the comparison inside "v IN (SELECT id ..)").
EqualsId(v, id) ==
    CASE v.t = "integer" -> v.i = id
      [] v.t = "text" -> LooksInteger(v.s) /\ DigitPrefix(v.s, 0) = id
      [] v.t = "null" -> FALSE

-----------------------------------------------------------------------------
(* Tables: the declared columns (PRAGMA table_info: name, type) and rows    *)
(* (column name -> value).                                                  *)

Col(name, type) == [name |-> name, type |-> type]

ColNames(table) == [k \in DOMAIN table.cols |-> table.cols[k].name]

SeqToSet(seq) == {seq[k] : k \in DOMAIN seq}

\* ALTER TABLE .. ADD COLUMN name type DEFAULT dflt.
AddColumn(table, name, type, dflt) ==
    [cols |-> Append(table.cols, Col(name, type)),
     rows |-> {[c \in DOMAIN r \cup {name} |->
                    IF c = name THEN dflt ELSE r[c]] : r \in table.rows}]

\* str.upper() on the declared type names that occur.
TypeUpper(type) ==
    CASE type = "varchar(255)" -> "VARCHAR(255)"
      [] type = "integer" -> "INTEGER"
      [] type = "text" -> "TEXT"
      [] OTHER -> type

\* The decimal digits of n >= 0, as SQLite prints an integer into a TEXT column.
RECURSIVE IntDigits(_)
IntDigits(n) ==
    LET d == CASE n % 10 = 0 -> "0" [] n % 10 = 1 -> "1" [] n % 10 = 2 -> "2"
               [] n % 10 = 3 -> "3" [] n % 10 = 4 -> "4" [] n % 10 = 5 -> "5"
               [] n % 10 = 6 -> "6" [] n % 10 = 7 -> "7" [] n % 10 = 8 -> "8"
               [] n % 10 = 9 -> "9"
    IN  IF n < 10 THEN <<d>> ELSE Append(IntDigits(n \div 10), d)

\* The value a column of the declared type stores for v (column affinity):
\* an INTEGER column turns an integer-looking text into the integer, a
\* VARCHAR/TEXT column turns an integer into its text.
StoreWithAffinity(type, v) ==
    CASE TypeUpper(type) = "INTEGER" /\ v.t = "text" /\ LooksInteger(v.s) ->
             SqlInt(DigitPrefix(v.s, 0))
      [] TypeUpper(type) \in {"VARCHAR(255)", "TEXT"} /\ v.t = "integer" ->
             SqlText(IntDigits(v.i))
      [] OTHER -> v

-----------------------------------------------------------------------------
(* scripts/migrate_user_ids.py *)

check_column_exists(d, table, column) ==
    column \in SeqToSet(ColNames(d[table]))

check_column_type(d, table, column) ==
    LET hits == {k \in DOMAIN d[table].cols : d[table].cols[k].name = column}
    IN  IF hits = {} THEN ""
        ELSE TypeUpper(d[table].cols[CHOOSE k \in hits : \A j \in hits : k <= j].type)

\* Mutant of migrate_taxonomies: the new is_global column is added and the
\* UPDATE that marks the existing rows global is missing.
migrate_taxonomies_no_update(d, dry_run) ==
    LET addUser == ~check_column_exists(d, "taxonomies", "user_id")
        c1 == IF addUser THEN << <<"ADD taxonomies.user_id INTEGER">> >> ELSE <<>>
        d1 == IF addUser /\ ~dry_run
              THEN [d EXCEPT !.taxonomies =
                        AddColumn(@, "user_id", "INTEGER", SqlNull)]
              ELSE d
        addGlobal == ~check_column_exists(d1, "taxonomies", "is_global")
        c2 == IF addGlobal
              THEN Append(c1, <<"ADD taxonomies.is_global BOOLEAN DEFAULT 0">>)
              ELSE c1
        added == AddColumn(d1.taxonomies, "is_global", "BOOLEAN", SqlInt(0))
    IN  IF addGlobal /\ ~dry_run
        THEN [db |-> [d1 EXCEPT !.taxonomies = added],
              changes |-> Append(c2, <<"SET existing taxonomies to is_global=1">>)]
        ELSE [db |-> d1, changes |-> c2]

\* Mutant of migrate_taxonomies: the ALTER TABLE statements are not guarded
\* by dry_run.
migrate_taxonomies_ignores_dry_run(d, dry_run) ==
    LET addUser == ~check_column_exists(d, "taxonomies", "user_id")
        c1 == IF addUser THEN << <<"ADD taxonomies.user_id INTEGER">> >> ELSE <<>>
        d1 == IF addUser
              THEN [d EXCEPT !.taxonomies =
                        AddColumn(@, "user_id", "INTEGER", SqlNull)]
              ELSE d
        addGlobal == ~check_column_exists(d1, "taxonomies", "is_global")
        c2 == IF addGlobal
              THEN Append(c1, <<"ADD taxonomies.is_global BOOLEAN DEFAULT 0">>)
              ELSE c1
        added == AddColumn(d1.taxonomies, "is_global", "BOOLEAN", SqlInt(0))
    IN  IF addGlobal
        THEN [db |-> [d1 EXCEPT !.taxonomies = added], changes |-> c2]
        ELSE [db |-> d1, changes |-> c2]

\* Returns [db, changes]: the database after the call and the returned list.
migrate_taxonomies(d, dry_run) ==
    LET addUser == ~check_column_exists(d, "taxonomies", "user_id")
        c1 == IF addUser THEN << <<"ADD taxonomies.user_id INTEGER">> >> ELSE <<>>
        d1 == IF addUser /\ ~dry_run
              THEN [d EXCEPT !.taxonomies =
                        AddColumn(@, "user_id", "INTEGER", SqlNull)]
              ELSE d
        addGlobal == ~check_column_exists(d1, "taxonomies", "is_global")
        c2 == IF addGlobal
              THEN Append(c1, <<"ADD taxonomies.is_global BOOLEAN DEFAULT 0">>)
              ELSE c1
        added == AddColumn(d1.taxonomies, "is_global", "BOOLEAN", SqlInt(0))
        \* UPDATE taxonomies SET is_global = 1 WHERE user_id IS NULL
        updated == [added EXCEPT !.rows =
                        {IF r["user_id"] = SqlNull
                         THEN [r EXCEPT !["is_global"] = SqlInt(1)]
                         ELSE r : r \in added.rows}]
    IN  IF addGlobal /\ ~dry_run
        THEN [db |-> [d1 EXCEPT !.taxonomies = updated],
              changes |-> Append(c2, <<"SET existing taxonomies to is_global=1">>)]
        ELSE [db |-> d1, changes |-> c2]

\* original_sql.replace("user_id VARCHAR(255)", "user_id INTEGER REFERENCES
\* users(id)"): an exact, case-sensitive match of the column definition.
ReplaceUserIdType(cols) ==
    [k \in DOMAIN cols |->
        IF cols[k].name = "user_id" /\ cols[k].type = "VARCHAR(255)"
        THEN Col("user_id", "INTEGER")
        ELSE cols[k]]

\* Mutant of ConvertUserId: the test for the empty string is missing.
ConvertUserIdNoEmptyTest(v) ==
    IF v = SqlNull THEN SqlNull ELSE CastInteger(v)

\* CASE WHEN user_id IS NULL OR user_id = '' THEN NULL
\*      ELSE CAST(user_id AS INTEGER) END
ConvertUserId(v) ==
    IF v = SqlNull \/ v = SqlText(<<>>) THEN SqlNull ELSE CastInteger(v)

\* Mutant of CopyRows: the copy selects only the rows that have an owner.
CopyRowsOwnedOnly(table, newCols) ==
    {[c \in SeqToSet(ColNames(table)) |->
        LET k == CHOOSE j \in DOMAIN newCols : newCols[j].name = c
            v == IF c = "user_id" THEN ConvertUserId(r[c]) ELSE r[c]
        IN  StoreWithAffinity(newCols[k].type, v)] :
     r \in {q \in table.rows : q["user_id"] # SqlNull}}

\* INSERT INTO temp (cols) SELECT cols_select FROM table: every row, column
\* by column, stored under the temp table's column types.
CopyRows(table, newCols) ==
    {[c \in SeqToSet(ColNames(table)) |->
        LET k == CHOOSE j \in DOMAIN newCols : newCols[j].name = c
            v == IF c = "user_id" THEN ConvertUserId(r[c]) ELSE r[c]
        IN  StoreWithAffinity(newCols[k].type, v)] : r \in table.rows}

\* Mutant of migrate_table_user_id: the test for an already INTEGER column
\* is missing.
migrate_table_user_id_no_integer_skip(d, table, dry_run) ==
    LET col_type == check_column_type(d, table, "user_id")
        newCols == ReplaceUserIdType(d[table].cols)
        temp == [cols |-> newCols, rows |-> CopyRows(d[table], newCols)]
    IN  IF ~check_column_exists(d, table, "user_id")
        THEN [db |-> d, changes |-> << <<"SKIP ", table, ": no user_id column">> >>]
        ELSE IF col_type # "VARCHAR(255)"
        THEN [db |-> d,
              changes |-> << <<"SKIP ", table, ".user_id: unexpected type ",
                               col_type>> >>]
        ELSE IF dry_run
        THEN [db |-> d,
              changes |-> << <<"CONVERT ", table,
                               ".user_id VARCHAR(255) -> INTEGER">> >>]
        ELSE [db |-> [d EXCEPT ![table] = temp],
              changes |->
                << <<"CONVERT ", table, ".user_id VARCHAR(255) -> INTEGER">>,
                   <<"COPY ", ToString(Cardinality(temp.rows)), " rows from ",
                     table>>,
                   <<"RENAME ", table, "_migration_temp -> ", table>> >>]

\* Mutant of migrate_table_user_id: the test for an unexpected column type
\* is missing, every column that is not INTEGER is converted.
migrate_table_user_id_no_type_test(d, table, dry_run) ==
    LET col_type == check_column_type(d, table, "user_id")
        newCols == ReplaceUserIdType(d[table].cols)
        temp == [cols |-> newCols, rows |-> CopyRows(d[table], newCols)]
    IN  IF ~check_column_exists(d, table, "user_id")
        THEN [db |-> d, changes |-> << <<"SKIP ", table, ": no user_id column">> >>]
        ELSE IF col_type = "INTEGER"
        THEN [db |-> d,
              changes |-> << <<"SKIP ", table, ".user_id: already INTEGER">> >>]
        ELSE IF dry_run
        THEN [db |-> d,
              changes |-> << <<"CONVERT ", table,
                               ".user_id VARCHAR(255) -> INTEGER">> >>]
        ELSE [db |-> [d EXCEPT ![table] = temp],
              changes |->
                << <<"CONVERT ", table, ".user_id VARCHAR(255) -> INTEGER">>,
                   <<"COPY ", ToString(Cardinality(temp.rows)), " rows from ",
                     table>>,
                   <<"RENAME ", table, "_migration_temp -> ", table>> >>]

migrate_table_user_id(d, table, dry_run) ==
    LET col_type == check_column_type(d, table, "user_id")
        newCols == ReplaceUserIdType(d[table].cols)
        temp == [cols |-> newCols, rows |-> CopyRows(d[table], newCols)]
    IN  IF ~check_column_exists(d, table, "user_id")
        THEN [db |-> d, changes |-> << <<"SKIP ", table, ": no user_id column">> >>]
        ELSE IF col_type = "INTEGER"
        THEN [db |-> d,
              changes |-> << <<"SKIP ", table, ".user_id: already INTEGER">> >>]
        ELSE IF col_type # "VARCHAR(255)"
        THEN [db |-> d,
              changes |-> << <<"SKIP ", table, ".user_id: unexpected type ",
                               col_type>> >>]
        ELSE IF dry_run
        THEN [db |-> d,
              changes |-> << <<"CONVERT ", table,
                               ".user_id VARCHAR(255) -> INTEGER">> >>]
        ELSE [db |-> [d EXCEPT ![table] = temp],
              changes |->
                << <<"CONVERT ", table, ".user_id VARCHAR(255) -> INTEGER">>,
                   <<"COPY ", ToString(Cardinality(temp.rows)), " rows from ",
                     table>>,
                   <<"RENAME ", table, "_migration_temp -> ", table>> >>]

\* The rows of a table whose user_id is not NULL and equals no users.id.
Orphans(d, table) ==
    {r \in d[table].rows :
        r["user_id"] # SqlNull /\ \A u \in d.users : ~EqualsId(r["user_id"], u)}

RECURSIVE verify_tables(_, _)
verify_tables(d, tables) ==
    IF tables = <<>> THEN <<>>
    ELSE LET t == Head(tables)
             rest == verify_tables(d, Tail(tables))
         IN  IF check_column_exists(d, t, "user_id") /\ Orphans(d, t) # {}
             THEN << <<"WARNING: ", ToString(Cardinality(Orphans(d, t))), " ",
                       t, " reference non-existent users">> >> \o rest
             ELSE rest

verify_foreign_keys(d) ==
    verify_tables(d, <<"bibmaps", "references", "taxonomies">>)

-----------------------------------------------------------------------------
(* The database files the migrator is run on: the legacy shape (user_id     *)
(* VARCHAR(255) in bibmaps and references, taxonomies without user_id and   *)
(* is_global, as the ORM of the ownerless application declared them), the   *)
(* current shape, and a user_id column of another declared type.            *)

\* user_id values of a legacy text column: NULL, '', '1', '12', '2a', 'a'.
LegacyUserIds ==
    {SqlNull, SqlText(<<>>), SqlText(<<"1">>), SqlText(<<"1", "2">>),
     SqlText(<<"2", "a">>), SqlText(<<"a">>)}

\* user_id values of an INTEGER column.
IntegerUserIds == {SqlNull, SqlInt(1), SqlInt(2)}

UserIdTypes == {"VARCHAR(255)", "INTEGER", "TEXT"}

UserIdValues(type) == IF type = "INTEGER" THEN IntegerUserIds ELSE LegacyUserIds

\* A bibmaps or references table of n rows.
OwnedTables(type, n) ==
    {[cols |-> <<Col("id", "INTEGER"), Col("title", "VARCHAR(255)"),
                 Col("user_id", type)>>,
      rows |-> {[c \in {"id", "title", "user_id"} |->
                    CASE c = "id" -> SqlInt(k)
                      [] c = "title" -> SqlText(<<"t", IntDigits(k)[1]>>)
                      [] c = "user_id" -> f[k]] : k \in 1..n}] :
        f \in [1..n -> UserIdValues(type)]}

\* A taxonomies table of n rows, legacy or current.
TaxonomyTables(current, n) ==
    IF ~current
    THEN {[cols |-> <<Col("id", "INTEGER"), Col("name", "VARCHAR(255)")>>,
           rows |-> {[c \in {"id", "name"} |->
                        IF c = "id" THEN SqlInt(k)
                        ELSE SqlText(<<"x", IntDigits(k)[1]>>)] : k \in 1..n}]}
    ELSE {[cols |-> <<Col("id", "INTEGER"), Col("name", "VARCHAR(255)"),
                      Col("user_id", "INTEGER"), Col("is_global", "BOOLEAN")>>,
           rows |-> {[c \in {"id", "name", "user_id", "is_global"} |->
                        CASE c = "id" -> SqlInt(k)
                          [] c = "name" -> SqlText(<<"x", IntDigits(k)[1]>>)
                          [] c = "user_id" -> f[k].u
                          [] c = "is_global" -> f[k].g] : k \in 1..n}] :
            f \in [1..n -> [u : IntegerUserIds, g : {SqlInt(0), SqlInt(1)}]]}

\* The users table holds one account, id 1.
InitUsers == {1}

InitDBs ==
    UNION {
        {[users |-> InitUsers, bibmaps |-> b, references |-> r, taxonomies |-> x] :
            b \in OwnedTables(sh[1], n[1]), r \in OwnedTables(sh[2], n[2]),
            x \in TaxonomyTables(sh[3], n[3])} :
        sh \in UserIdTypes \X UserIdTypes \X BOOLEAN,
        n \in {m \in (0..MaxRows) \X (0..MaxRows) \X (0..MaxRows) :
                  m[1] + m[2] + m[3] <= MaxRows}}

EmptyDB ==
    [users |-> InitUsers,
     bibmaps |-> CHOOSE b \in OwnedTables("VARCHAR(255)", 0) : TRUE,
     references |-> CHOOSE r \in OwnedTables("VARCHAR(255)", 0) : TRUE,
     taxonomies |-> CHOOSE x \in TaxonomyTables(FALSE, 0) : TRUE]

NoCall == [op |-> "none", table |-> "", dry_run |-> FALSE, pre |-> EmptyDB,
           changes |-> <<>>]

\* No settings are stored, no registration and no OAuth login is under way.
AuthIdle ==
    /\ settings = <<>> /\ inflight = {} /\ oauth_states = {}
    /\ callbacks = {}
    /\ history = [tokens |-> {}, issued |-> 0, accepted |-> <<>>]

\* The application is not running while the migrator works on the file.
ApiDown ==
    /\ AuthIdle
    /\ users = <<>> /\ taxonomies = <<>> /\ bibmaps = <<>> /\ nodes = <<>>
    /\ connections = <<>>
    /\ references = <<>> /\ media = <<>>
    /\ resp = [op |-> "none", user |-> 0, id |-> 0, status |-> 0, body |-> <<>>]

InitMig ==
    /\ fileExists \in BOOLEAN
    /\ db \in (IF fileExists THEN InitDBs ELSE {EmptyDB})
    /\ backups = <<>>
    /\ pc = "idle"
    /\ args = [dry_run |-> FALSE, no_backup |-> FALSE]
    /\ dbAtStart = db
    /\ last = NoCall
    /\ issues = <<>>
    /\ exitCode = -1
    /\ runs = 0
    /\ backupsAtStart = 0
    /\ firstLive = <<>>
    /\ ApiDown

NotRunning == pc \in {"idle", "exited"}

\* A test or an operator calls migrate_taxonomies(cursor, dry_run) and commits.
CallMigrateTaxonomies ==
    /\ pc = "idle" /\ fileExists
    /\ \E dry \in BOOLEAN :
         LET res == migrate_taxonomies(db, dry)
         IN  /\ db' = res.db
             /\ last' = [op |-> "migrate_taxonomies", table |-> "taxonomies",
                         dry_run |-> dry, pre |-> db, changes |-> res.changes]
    /\ UNCHANGED <<fileExists, backups, pc, args, dbAtStart, issues, exitCode,
                   runs, backupsAtStart, firstLive>>

\* A test or an operator calls migrate_table_user_id(cursor, table, dry_run).
CallMigrateTableUserId ==
    /\ pc = "idle" /\ fileExists
    /\ \E table \in {"bibmaps", "references"}, dry \in BOOLEAN :
         LET res == migrate_table_user_id(db, table, dry)
         IN  /\ db' = res.db
             /\ last' = [op |-> "migrate_table_user_id", table |-> table,
                         dry_run |-> dry, pre |-> db, changes |-> res.changes]
    /\ UNCHANGED <<fileExists, backups, pc, args, dbAtStart, issues, exitCode,
                   runs, backupsAtStart, firstLive>>

\* main(): parse the arguments, check that the file exists.
MainStart ==
    /\ NotRunning /\ runs < MaxRuns
    /\ \E dry \in BOOLEAN, nb \in BOOLEAN :
         args' = [dry_run |-> dry, no_backup |-> nb]
    /\ dbAtStart' = db
    /\ backupsAtStart' = Len(backups)
    /\ issues' = <<>>
    /\ IF fileExists
       THEN pc' = "backup" /\ exitCode' = -1 /\ runs' = runs
       ELSE pc' = "exited" /\ exitCode' = 1 /\ runs' = runs + 1
    /\ UNCHANGED <<db, fileExists, backups, last, firstLive>>

\* Mutant of MainBackup: the backup is made unless both flags are given.
MainBackupOrFlags ==
    /\ pc = "backup"
    /\ backups' = IF ~args.dry_run \/ ~args.no_backup
                  THEN Append(backups, db) ELSE backups
    /\ pc' = "taxonomies"
    /\ UNCHANGED <<db, fileExists, args, dbAtStart, last, issues, exitCode,
                   runs, backupsAtStart, firstLive>>

\* main(): backup_database unless dry_run or no_backup; connect.
MainBackup ==
    /\ pc = "backup"
    /\ backups' = IF ~args.dry_run /\ ~args.no_backup
                  THEN Append(backups, db) ELSE backups
    /\ pc' = "taxonomies"
    /\ UNCHANGED <<db, fileExists, args, dbAtStart, last, issues, exitCode,
                   runs, backupsAtStart, firstLive>>

MainTaxonomies ==
    /\ pc = "taxonomies"
    /\ LET res == migrate_taxonomies(db, args.dry_run)
       IN  /\ db' = res.db
           /\ last' = [op |-> "migrate_taxonomies", table |-> "taxonomies",
                       dry_run |-> args.dry_run, pre |-> db,
                       changes |-> res.changes]
    /\ pc' = "bibmaps"
    /\ UNCHANGED <<fileExists, backups, args, dbAtStart, issues, exitCode,
                   runs, backupsAtStart, firstLive>>

MainBibmaps ==
    /\ pc = "bibmaps"
    /\ LET res == migrate_table_user_id(db, "bibmaps", args.dry_run)
       IN  /\ db' = res.db
           /\ last' = [op |-> "migrate_table_user_id", table |-> "bibmaps",
                       dry_run |-> args.dry_run, pre |-> db,
                       changes |-> res.changes]
    /\ pc' = "references"
    /\ UNCHANGED <<fileExists, backups, args, dbAtStart, issues, exitCode,
                   runs, backupsAtStart, firstLive>>

MainReferences ==
    /\ pc = "references"
    /\ LET res == migrate_table_user_id(db, "references", args.dry_run)
       IN  /\ db' = res.db
           /\ last' = [op |-> "migrate_table_user_id", table |-> "references",
                       dry_run |-> args.dry_run, pre |-> db,
                       changes |-> res.changes]
    /\ pc' = "verify"
    /\ UNCHANGED <<fileExists, backups, args, dbAtStart, issues, exitCode,
                   runs, backupsAtStart, firstLive>>

MainVerify ==
    /\ pc = "verify"
    /\ issues' = verify_foreign_keys(db)
    /\ pc' = "finish"
    /\ UNCHANGED <<db, fileExists, backups, args, dbAtStart, last, exitCode,
                   runs, backupsAtStart, firstLive>>

\* main(): commit (live) or close (dry run); return 0 if not issues else 1.
MainFinish ==
    /\ pc = "finish"
    /\ exitCode' = IF issues = <<>> THEN 0 ELSE 1
    /\ pc' = "exited"
    /\ runs' = runs + 1
    /\ firstLive' = IF ~args.dry_run /\ firstLive = <<>> THEN <<db>> ELSE firstLive
    /\ UNCHANGED <<db, fileExists, backups, args, dbAtStart, last, issues,
                   backupsAtStart>>

NextMig ==
    \/ CallMigrateTaxonomies /\ UNCHANGED <<apiVars, authVars>>
    \/ CallMigrateTableUserId /\ UNCHANGED <<apiVars, authVars>>
    \/ MainStart /\ UNCHANGED <<apiVars, authVars>>
    \/ MainBackup /\ UNCHANGED <<apiVars, authVars>>
    \/ MainTaxonomies /\ UNCHANGED <<apiVars, authVars>>
    \/ MainBibmaps /\ UNCHANGED <<apiVars, authVars>>
    \/ MainReferences /\ UNCHANGED <<apiVars, authVars>>
    \/ MainVerify /\ UNCHANGED <<apiVars, authVars>>
    \/ MainFinish /\ UNCHANGED <<apiVars, authVars>>

SpecMig == InitMig /\ [][NextMig]_vars

-----------------------------------------------------------------------------
(* Claims about the migrator.  last.pre is the database before the last     *)
(* migrator function call and db the database after it: only these calls    *)
(* change db.                                                               *)

\* The declared type of a column as written in the schema, "" without one.
DeclaredType(table, column) ==
    LET hits == {k \in DOMAIN table.cols : table.cols[k].name = column}
    IN  IF hits = {} THEN "" ELSE table.cols[CHOOSE k \in hits : TRUE].type

RowWithId(table, id) == CHOOSE r \in table.rows : r["id"] = id

RowIds(table) == {r["id"] : r \in table.rows}

LiveTableCall ==
    last.op = "migrate_table_user_id" /\ ~last.dry_run

LiveConversion ==
    LiveTableCall /\ DeclaredType(last.pre[last.table], "user_id") = "VARCHAR(255)"

\* C1: after a live migrate_table_user_id of a table whose user_id is
\* declared VARCHAR(255), the column is declared INTEGER, a NULL or ''
\* user_id is NULL and every other one is the integer cast of the old string.
C1_ConvertedToInteger ==
    LiveConversion =>
        /\ DeclaredType(db[last.table], "user_id") = "INTEGER"
        /\ \A r \in last.pre[last.table].rows :
             /\ r["id"] \in RowIds(db[last.table])
             /\ RowWithId(db[last.table], r["id"])["user_id"] =
                    IF r["user_id"].t = "null"
                       \/ (r["user_id"].t = "text" /\ r["user_id"].s = <<>>)
                    THEN SqlNull
                    ELSE CastInteger(r["user_id"])

\* C1 witness: a converted table that held '12', '' or a text without digits.
C1_Witness ==
    /\ LiveConversion
    /\ \E r \in last.pre[last.table].rows :
         /\ r["user_id"] = SqlText(<<"1", "2">>)
         /\ RowWithId(db[last.table], r["id"])["user_id"] = SqlInt(12)

\* C2: a live migrate_table_user_id keeps the set of rows (same count, same
\* ids) and every column other than user_id of every row; the columns keep
\* their names and order, and the other tables are untouched.
C2_NoDataLoss ==
    LiveTableCall =>
        LET old == last.pre[last.table]
            new == db[last.table]
        IN  /\ Cardinality(new.rows) = Cardinality(old.rows)
            /\ RowIds(new) = RowIds(old)
            /\ ColNames(new) = ColNames(old)
            /\ \A r \in old.rows :
                 \A c \in DOMAIN r \ {"user_id"} :
                    RowWithId(new, r["id"])[c] = r[c]
            /\ \A t \in {"bibmaps", "references", "taxonomies"} \ {last.table} :
                 db[t] = last.pre[t]
            /\ db.users = last.pre.users

\* C2 witness: a conversion that copied a row without owner.
C2_Witness ==
    /\ LiveConversion
    /\ \E r \in last.pre[last.table].rows : r["user_id"] = SqlNull
    /\ last.changes[2] = <<"COPY ", "1", " rows from ", last.table>>

HasBothTaxonomyColumns(d) ==
    /\ DeclaredType(d.taxonomies, "user_id") # ""
    /\ DeclaredType(d.taxonomies, "is_global") # ""

\* C3: a live migrate_table_user_id on a table whose user_id is INTEGER
\* returns only 'SKIP <table>.user_id: already INTEGER' and changes nothing;
\* migrate_taxonomies on a table that has user_id and is_global returns an
\* empty list and changes nothing; once a live main() has completed, the
\* database stays what that run produced.
C3_Idempotent ==
    /\ (LiveTableCall /\ DeclaredType(last.pre[last.table], "user_id") = "INTEGER")
          => /\ last.changes =
                    << <<"SKIP ", last.table, ".user_id: already INTEGER">> >>
             /\ db = last.pre
    /\ (last.op = "migrate_taxonomies" /\ HasBothTaxonomyColumns(last.pre))
          => last.changes = <<>> /\ db = last.pre
    /\ firstLive # <<>> => db = firstLive[1]

\* C3 witness: the second live main() has skipped the bibmaps table that the
\* first one (backed up as backups[1]) had converted.
C3_Witness ==
    /\ runs >= 1 /\ firstLive # <<>> /\ Len(backups) >= 1
    /\ DeclaredType(backups[1].bibmaps, "user_id") = "VARCHAR(255)"
    /\ backups[1].bibmaps.rows # {}
    /\ pc = "references" /\ ~args.dry_run
    /\ last.changes = << <<"SKIP ", "bibmaps", ".user_id: already INTEGER">> >>

LegacyTaxonomies(d) ==
    /\ DeclaredType(d.taxonomies, "user_id") = ""
    /\ DeclaredType(d.taxonomies, "is_global") = ""

\* C4: every taxonomy of a not yet migrated taxonomies table has, after a
\* live migrate_taxonomies, is_global = 1 and user_id NULL.
C4_ExistingAreGlobal ==
    (last.op = "migrate_taxonomies" /\ ~last.dry_run /\ LegacyTaxonomies(last.pre))
        => \A r \in last.pre.taxonomies.rows :
              /\ r["id"] \in RowIds(db.taxonomies)
              /\ RowWithId(db.taxonomies, r["id"])["is_global"] = SqlInt(1)
              /\ RowWithId(db.taxonomies, r["id"])["user_id"] = SqlNull

\* C4 witness: a legacy table with a taxonomy has been migrated.
C4_Witness ==
    /\ last.op = "migrate_taxonomies" /\ ~last.dry_run
    /\ LegacyTaxonomies(last.pre)
    /\ last.pre.taxonomies.rows # {}
    /\ HasBothTaxonomyColumns(db)

\* The changes a dry run of migrate_taxonomies has to name for database d.
PendingTaxonomyChanges(d) ==
    (IF DeclaredType(d.taxonomies, "user_id") = ""
     THEN << <<"ADD taxonomies.user_id INTEGER">> >> ELSE <<>>)
    \o (IF DeclaredType(d.taxonomies, "is_global") = ""
        THEN << <<"ADD taxonomies.is_global BOOLEAN DEFAULT 0">> >> ELSE <<>>)

\* C5: a dry run of migrate_taxonomies or migrate_table_user_id leaves the
\* schema and rows of every table as they were and still names the pending
\* changes: the columns to add, the VARCHAR -> INTEGER conversion.
C5_DryRunChangesNothing ==
    (last.op # "none" /\ last.dry_run) =>
        /\ db = last.pre
        /\ last.op = "migrate_taxonomies" =>
              last.changes = PendingTaxonomyChanges(last.pre)
        /\ (last.op = "migrate_table_user_id"
            /\ DeclaredType(last.pre[last.table], "user_id") = "VARCHAR(255)") =>
              last.changes = << <<"CONVERT ", last.table,
                                  ".user_id VARCHAR(255) -> INTEGER">> >>

\* C5 witness: a dry run on a legacy taxonomies table named both columns.
C5_Witness ==
    /\ last.op = "migrate_taxonomies" /\ last.dry_run
    /\ LegacyTaxonomies(last.pre) /\ last.pre.taxonomies.rows # {}
    /\ Len(last.changes) = 2

MainRunning == pc \notin {"idle", "exited"}

\* C6: in main(), nothing is modified before the backup step; a live run
\* without --no-backup makes exactly one backup, which holds the content the
\* database had when the run started; a dry run or --no-backup makes none.
C6_BackupBeforeChange ==
    /\ pc = "backup" => db = dbAtStart /\ Len(backups) = backupsAtStart
    /\ (MainRunning /\ pc # "backup") \/ (pc = "exited" /\ fileExists) =>
          IF ~args.dry_run /\ ~args.no_backup
          THEN /\ Len(backups) = backupsAtStart + 1
               /\ backups[Len(backups)] = dbAtStart
          ELSE Len(backups) = backupsAtStart

\* C6 witness: a live run has changed the database and its backup holds the
\* content from before.
C6_Witness ==
    /\ pc = "exited" /\ ~args.dry_run /\ ~args.no_backup
    /\ db # dbAtStart
    /\ backups[Len(backups)] = dbAtStart

\* Some bibmaps, references or taxonomies row of d has a user_id that is not
\* NULL and is no users.id.
HasOrphan(d) ==
    \E t \in {"bibmaps", "references", "taxonomies"} :
        /\ DeclaredType(d[t], "user_id") # ""
        /\ \E r \in d[t].rows :
              r["user_id"] # SqlNull /\ \A u \in d.users : ~EqualsId(r["user_id"], u)

\* C7: main() exits 1, without backup and without database, when the file
\* does not exist; 0 for every dry run on an existing database; for a live
\* run 0 when no orphaned user_id is left and 1 when one is.
C7_ExitCode ==
    pc = "exited" =>
        /\ ~fileExists =>
              exitCode = 1 /\ Len(backups) = backupsAtStart /\ db = dbAtStart
        /\ (fileExists /\ args.dry_run) => exitCode = 0
        /\ (fileExists /\ ~args.dry_run) =>
              exitCode = IF HasOrphan(db) THEN 1 ELSE 0

UnexpectedSkip(table) ==
    /\ last.op = "migrate_table_user_id" /\ last.table = table
    /\ DeclaredType(last.pre[table], "user_id") \notin {"", "INTEGER", "VARCHAR(255)"}

\* C8: on a user_id column declared neither INTEGER nor VARCHAR(255),
\* migrate_table_user_id returns only 'SKIP <table>.user_id: unexpected type
\* <type>' and leaves the database as it was, and main() goes on with the
\* next step.
C8_UnexpectedTypeSkipped ==
    /\ \A table \in {"bibmaps", "references"} :
         UnexpectedSkip(table) =>
            /\ last.changes =
                  << <<"SKIP ", table, ".user_id: unexpected type ",
                       DeclaredType(last.pre[table], "user_id")>> >>
            /\ db = last.pre
    /\ (pc = "references" /\ UnexpectedSkip("bibmaps")) => ENABLED MainReferences
    /\ (pc = "verify" /\ UnexpectedSkip("references")) => ENABLED MainVerify

\* C8 witness: main() skipped a bibmaps table with a TEXT user_id that holds
\* a row, live, and is at the references step.
C8_Witness ==
    /\ pc = "references" /\ ~args.dry_run /\ UnexpectedSkip("bibmaps")
    /\ last.pre.bibmaps.rows # {}

-----------------------------------------------------------------------------
(* backend/app: the REST handlers.  A request carries a token that names a  *)
(* user id, or none (NoUser).  A string is the sequence of its characters;  *)
(* None and '' (both false in Python) are the empty sequence.  resp holds   *)
(* the last request and its answer: the handler, the token, the id asked    *)
(* for, the status, and the rows a query returned.                          *)

NoUser == 0

NoColor == <<>>

\* default_color = "#3B82F6"
DefaultColor == <<"#", "3", "B", "8", "2", "F", "6">>

LowerLetters ==
    <<"a", "b", "c", "d", "e", "f", "g", "h", "i", "j", "k", "l", "m",
      "n", "o", "p", "q", "r", "s", "t", "u", "v", "w", "x", "y", "z">>

UpperLetters ==
    <<"A", "B", "C", "D", "E", "F", "G", "H", "I", "J", "K", "L", "M",
      "N", "O", "P", "Q", "R", "S", "T", "U", "V", "W", "X", "Y", "Z">>

UpperChar(ch) ==
    IF \E k \in DOMAIN LowerLetters : LowerLetters[k] = ch
    THEN UpperLetters[CHOOSE k \in DOMAIN LowerLetters : LowerLetters[k] = ch]
    ELSE ch

\* str.upper()
Upper(str) == [k \in DOMAIN str |-> UpperChar(str[k])]

\* The elements of a set of integers in ascending order.
RECURSIVE SortedSeq(_)
SortedSeq(S) ==
    IF S = {} THEN <<>>
    ELSE LET m == CHOOSE x \in S : \A y \in S : x <= y
         IN  <<m>> \o SortedSeq(S \ {m})

\* The id SQLite gives the next row of a table: the largest rowid plus one.
NewId(table) ==
    IF DOMAIN table = {} THEN 1
    ELSE (CHOOSE x \in DOMAIN table : \A y \in DOMAIN table : y <= x) + 1

Response(op, user, id, status, body) ==
    [op |-> op, user |-> user, id |-> id, status |-> status, body |-> body,
     request |-> <<>>]

NoResponse == Response("none", NoUser, 0, 0, <<>>)

\* Mutant of get_current_user: a deactivated user is served too.
get_current_user_inactive_too(token) ==
    IF token \in DOMAIN users THEN token ELSE NoUser

\* get_current_user: the active user the token names, None otherwise.
get_current_user(token) ==
    IF token \in DOMAIN users /\ users[token].is_active THEN token ELSE NoUser

\* get_current_user_for_write: as get_current_user (anonymous writes are
\* served in local mode).
get_current_user_for_write(token) == get_current_user(token)

\* Mutant of check_ownership: every authenticated user passes.
check_ownership_any_user(user, owner_id) ==
    \/ user = NoUser /\ owner_id = NoUser
    \/ user # NoUser

check_ownership(user, owner_id) ==
    \/ user = NoUser /\ owner_id = NoUser
    \/ /\ user # NoUser
       /\ \/ users[user].role = "admin"
          \/ owner_id = NoUser \/ user = owner_id

\* db.query(Taxonomy).filter(Taxonomy.id.in_(taxonomy_ids)).all()
ExistingTaxonomies(taxonomy_ids) == taxonomy_ids \cap DOMAIN taxonomies

\* Mutant of NormalizedLegend: the legend_category is stored as sent.
NormalizedLegend_as_sent(legend_category) == legend_category

\* legend_category.upper() if legend_category else None
NormalizedLegend(legend_category) ==
    IF legend_category # NoColor THEN Upper(legend_category) ELSE NoColor

\* schemas.Reference declares user_id: Optional[str]; the column is an
\* Integer, and an int is no valid str: a reference with an owner fails the
\* validation of the response model.
ReferenceSchemaValid(row) == row.user_id = NoUser

\* schemas.Media declares user_id: Optional[int].
MediaSchemaValid(row) == TRUE

-----------------------------------------------------------------------------
(* routers/nodes.py: the matching queries.  The four handlers build the     *)
(* same conditions and match reasons over references or media.              *)

\* node.background_color.upper() if node.background_color else None
node_color(node) ==
    IF node.background_color # NoColor THEN Upper(node.background_color)
    ELSE NoColor

\* Mutant of has_legend_match: the color is compared as stored.
has_legend_match_as_stored(node) ==
    node.background_color # NoColor /\ node.background_color # DefaultColor

\* has_legend_match = node_color and node_color != default_color.upper()
has_legend_match(node) ==
    node_color(node) # NoColor /\ node_color(node) # Upper(DefaultColor)

\* or_(*conditions): the row shares a taxonomy with the node, or legend
\* matching is on and the stored legend_category is the node's color.
matches_conditions(row, node) ==
    \/ node.taxonomies # {} /\ row.taxonomies \cap node.taxonomies # {}
    \/ has_legend_match(node) /\ row.legend_category = node_color(node)

TaxonomyReason(taxonomy_id) ==
    [type |-> "taxonomy", taxonomy_id |-> taxonomy_id, legend_category |-> NoColor]

LegendReason(legend_category) ==
    [type |-> "legend_category", taxonomy_id |-> 0,
     legend_category |-> legend_category]

\* Mutant of match_reasons: the legend reason is added without the test
\* of has_legend_match.
match_reasons_legend_untested(row, node) ==
    LET shared == SortedSeq(row.taxonomies \cap node.taxonomies)
    IN  [k \in DOMAIN shared |-> TaxonomyReason(shared[k])]
        \o (IF row.legend_category # NoColor
               /\ Upper(row.legend_category) = node_color(node)
            THEN <<LegendReason(row.legend_category)>> ELSE <<>>)

\* The match_reasons of a selected row: one per taxonomy of the row that
\* the node has, then the legend reason.
match_reasons(row, node) ==
    LET shared == SortedSeq(row.taxonomies \cap node.taxonomies)
    IN  [k \in DOMAIN shared |-> TaxonomyReason(shared[k])]
        \o (IF has_legend_match(node) /\ row.legend_category # NoColor
               /\ Upper(row.legend_category) = node_color(node)
            THEN <<LegendReason(row.legend_category)>> ELSE <<>>)

\* The rows among ids that satisfy the conditions, each with its reasons;
\* nothing when the node gives no condition.
MatchResults(table, ids, node) ==
    IF node.taxonomies = {} /\ ~has_legend_match(node) THEN <<>>
    ELSE LET hits == SortedSeq({i \in ids : matches_conditions(table[i], node)})
         IN  [k \in DOMAIN hits |->
                 [id |-> hits[k],
                  legend_category |-> table[hits[k]].legend_category,
                  user_id |-> table[hits[k]].user_id,
                  match_reasons |-> match_reasons(table[hits[k]], node)]]

\* The rows a requester's query keeps: a user's own rows, every row for an
\* admin, the rows without owner for an anonymous request.
UserRows(table, user) ==
    {i \in DOMAIN table :
        IF user # NoUser
        THEN users[user].role = "admin" \/ table[i].user_id = user
        ELSE table[i].user_id = NoUser}

\* response_model: List[schemas.ReferenceWithMatch] or List[schemas.Reference]
\* for the queries on references, List[schemas.MediaWithMatch] or
\* List[schemas.Media] for those on media.
ResponseModelValid(op, row) ==
    IF op \in {"get_node_references", "get_public_node_references",
               "list_references"}
    THEN ReferenceSchemaValid(row) ELSE MediaSchemaValid(row)

\* The answer of a private matching handler for the node: 404 without the
\* node or its map, 403 without access to the map.
PrivateMatch(op, table, token, node_id) ==
    LET user == get_current_user(token)
    IN  IF node_id \notin DOMAIN nodes
           \/ nodes[node_id].bibmap_id \notin DOMAIN bibmaps
        THEN Response(op, token, node_id, 404, <<>>)
        ELSE IF ~check_ownership(user, bibmaps[nodes[node_id].bibmap_id].user_id)
        THEN Response(op, token, node_id, 403, <<>>)
        ELSE LET body == MatchResults(table, UserRows(table, user), nodes[node_id])
             IN  IF \A k \in DOMAIN body : ResponseModelValid(op, body[k])
                 THEN Response(op, token, node_id, 200, body)
                 ELSE Response(op, token, node_id, 500, <<>>)

\* Mutant of PublicMatch: the rows are not restricted to the map's owner.
PublicMatch_any_owner(op, table, node_id) ==
    IF node_id \notin DOMAIN nodes
    THEN Response(op, NoUser, node_id, 404, <<>>)
    ELSE IF nodes[node_id].bibmap_id \notin DOMAIN bibmaps
            \/ ~bibmaps[nodes[node_id].bibmap_id].is_published
    THEN Response(op, NoUser, node_id, 403, <<>>)
    ELSE LET body == MatchResults(table, DOMAIN table, nodes[node_id])
         IN  IF \A k \in DOMAIN body : ResponseModelValid(op, body[k])
             THEN Response(op, NoUser, node_id, 200, body)
             ELSE Response(op, NoUser, node_id, 500, <<>>)

\* Mutant of PublicMatch: the test of is_published is missing.
PublicMatch_no_publication_test(op, table, node_id) ==
    IF node_id \notin DOMAIN nodes
    THEN Response(op, NoUser, node_id, 404, <<>>)
    ELSE LET owner == bibmaps[nodes[node_id].bibmap_id].user_id
             ids == {i \in DOMAIN table : table[i].user_id = owner}
             body == MatchResults(table, ids, nodes[node_id])
         IN  IF \A k \in DOMAIN body : ResponseModelValid(op, body[k])
             THEN Response(op, NoUser, node_id, 200, body)
             ELSE Response(op, NoUser, node_id, 500, <<>>)

\* The answer of a public matching handler: 404 without the node, 403
\* unless the map is published; the rows of the map's owner.
PublicMatch(op, table, node_id) ==
    IF node_id \notin DOMAIN nodes
    THEN Response(op, NoUser, node_id, 404, <<>>)
    ELSE IF nodes[node_id].bibmap_id \notin DOMAIN bibmaps
            \/ ~bibmaps[nodes[node_id].bibmap_id].is_published
    THEN Response(op, NoUser, node_id, 403, <<>>)
    ELSE LET owner == bibmaps[nodes[node_id].bibmap_id].user_id
             ids == {i \in DOMAIN table : table[i].user_id = owner}
             body == MatchResults(table, ids, nodes[node_id])
         IN  IF \A k \in DOMAIN body : ResponseModelValid(op, body[k])
             THEN Response(op, NoUser, node_id, 200, body)
             ELSE Response(op, NoUser, node_id, 500, <<>>)

-----------------------------------------------------------------------------
(* The requests.  Colors as clients send them: the default color, a second  *)
(* color, each in upper and in lower case.                                  *)

Colors ==
    {DefaultColor, <<"#", "3", "b", "8", "2", "f", "6">>,
     <<"#", "A", "B", "C", "D", "E", "F">>, <<"#", "a", "b", "c", "d", "e", "f">>}

\* legend_category as clients send it: none, or a color in either case.
LegendInputs ==
    {NoColor, <<"#", "3", "b", "8", "2", "f", "6">>,
     <<"#", "A", "B", "C", "D", "E", "F">>, <<"#", "a", "b", "c", "d", "e", "f">>}

BibtexKeys == {"k1"}

\* The library, references and media together, holds one entry.
LibraryFull == DOMAIN references # {} \/ DOMAIN media # {}

\* The ids requests name: the rows that exist and the next one.
RequestIds(table) == DOMAIN table \cup {NewId(table)}

Tokens == DOMAIN users \cup {NoUser}

\* The bodies of a PUT: legend_category set, or taxonomy_ids set; the other
\* field is left out.
Updates ==
    {[has_legend |-> TRUE, legend_category |-> l, has_taxonomy_ids |-> FALSE,
      taxonomy_ids |-> {}] : l \in LegendInputs}
    \cup {[has_legend |-> FALSE, legend_category |-> NoColor,
            has_taxonomy_ids |-> TRUE, taxonomy_ids |-> t] :
              t \in SUBSET DOMAIN taxonomies}

\* The row after update_reference / update_media applied the body to it.
UpdatedRow(row, update) ==
    [row EXCEPT
        !.taxonomies = IF update.has_taxonomy_ids
                       THEN ExistingTaxonomies(update.taxonomy_ids) ELSE @,
        !.legend_category = IF update.has_legend
                            THEN NormalizedLegend(update.legend_category) ELSE @]

\* POST /api/references/.  The row is committed before the response is
\* built (201, or 500 when the response model rejects the row).
create_reference ==
    /\ \E token \in Tokens, key \in BibtexKeys :
         IF \E r \in DOMAIN references : references[r].bibtex_key = key
         THEN /\ resp' = Response("create_reference", token, 0, 400, <<>>)
              /\ UNCHANGED references
         ELSE /\ ~LibraryFull
              /\ \E legend \in LegendInputs, taxonomy_ids \in SUBSET DOMAIN taxonomies :
                   LET user == get_current_user_for_write(token)
                       id == NewId(references)
                       row == [bibtex_key |-> key,
                               legend_category |-> NormalizedLegend(legend),
                               user_id |-> user,
                               taxonomies |-> ExistingTaxonomies(taxonomy_ids)]
                   IN  /\ references' = references @@ (id :> row)
                       /\ resp' = Response("create_reference", token, id,
                                     IF ReferenceSchemaValid(row) THEN 201 ELSE 500,
                                     <<>>)
    /\ UNCHANGED <<users, taxonomies, connections, bibmaps, nodes, media>>

\* PUT /api/references/{reference_id}
update_reference ==
    /\ \E token \in Tokens, id \in RequestIds(references) :
         IF id \notin DOMAIN references
         THEN /\ resp' = Response("update_reference", token, id, 404, <<>>)
              /\ UNCHANGED references
         ELSE IF ~check_ownership(get_current_user_for_write(token),
                                  references[id].user_id)
         THEN /\ resp' = Response("update_reference", token, id, 403, <<>>)
              /\ UNCHANGED references
         ELSE \E update \in Updates :
                LET row == UpdatedRow(references[id], update)
                IN  /\ references' = [references EXCEPT ![id] = row]
                    /\ resp' = Response("update_reference", token, id,
                                  IF ReferenceSchemaValid(row) THEN 200 ELSE 500,
                                  <<>>)
    /\ UNCHANGED <<users, taxonomies, connections, bibmaps, nodes, media>>

\* POST /api/media/
create_media ==
    /\ ~LibraryFull
    /\ \E token \in Tokens, legend \in LegendInputs,
          taxonomy_ids \in SUBSET DOMAIN taxonomies :
         LET user == get_current_user(token)
             id == NewId(media)
             row == [legend_category |-> NormalizedLegend(legend),
                     user_id |-> user,
                     taxonomies |-> ExistingTaxonomies(taxonomy_ids)]
         IN  /\ media' = media @@ (id :> row)
             /\ resp' = Response("create_media", token, id, 201, <<>>)
    /\ UNCHANGED <<users, taxonomies, connections, bibmaps, nodes, references>>

\* PUT /api/media/{media_id}
update_media ==
    /\ \E token \in Tokens, id \in RequestIds(media) :
         IF id \notin DOMAIN media
         THEN /\ resp' = Response("update_media", token, id, 404, <<>>)
              /\ UNCHANGED media
         ELSE IF ~check_ownership(get_current_user(token), media[id].user_id)
         THEN /\ resp' = Response("update_media", token, id, 403, <<>>)
              /\ UNCHANGED media
         ELSE \E update \in Updates :
                /\ media' = [media EXCEPT ![id] = UpdatedRow(media[id], update)]
                /\ resp' = Response("update_media", token, id, 200, <<>>)
    /\ UNCHANGED <<users, taxonomies, connections, bibmaps, nodes, references>>

\* The bodies of a PUT /api/nodes/{node_id}: background_color set (a color
\* or ''), or taxonomy_ids set; the other field is left out.
NodeUpdates ==
    {[has_color |-> TRUE, background_color |-> c, has_taxonomy_ids |-> FALSE,
      taxonomy_ids |-> {}] : c \in Colors \cup {NoColor}}
    \cup {[has_color |-> FALSE, background_color |-> NoColor,
            has_taxonomy_ids |-> TRUE, taxonomy_ids |-> t] :
              t \in SUBSET DOMAIN taxonomies}

\* PUT /api/nodes/{node_id}
update_node ==
    /\ \E token \in Tokens, id \in DOMAIN nodes :
         IF ~check_ownership(get_current_user(token),
                             bibmaps[nodes[id].bibmap_id].user_id)
         THEN /\ resp' = Response("update_node", token, id, 403, <<>>)
              /\ UNCHANGED nodes
         ELSE \E update \in NodeUpdates :
                /\ nodes' =
                     [nodes EXCEPT
                        ![id].taxonomies =
                            IF update.has_taxonomy_ids
                            THEN ExistingTaxonomies(update.taxonomy_ids) ELSE @,
                        ![id].background_color =
                            IF update.has_color THEN update.background_color ELSE @]
                /\ resp' = Response("update_node", token, id, 200, <<>>)
    /\ UNCHANGED <<users, taxonomies, connections, bibmaps, references, media>>

\* GET /api/nodes/{node_id}/references
get_node_references ==
    /\ \E token \in Tokens, node_id \in DOMAIN nodes :
         resp' = PrivateMatch("get_node_references", references, token, node_id)
    /\ UNCHANGED <<users, taxonomies, connections, bibmaps, nodes, references, media>>

\* GET /api/nodes/{node_id}/media
get_node_media ==
    /\ \E token \in Tokens, node_id \in DOMAIN nodes :
         resp' = PrivateMatch("get_node_media", media, token, node_id)
    /\ UNCHANGED <<users, taxonomies, connections, bibmaps, nodes, references, media>>

\* GET /api/nodes/public/{node_id}/references
get_public_node_references ==
    /\ \E node_id \in RequestIds(nodes) :
         resp' = PublicMatch("get_public_node_references", references, node_id)
    /\ UNCHANGED <<users, taxonomies, connections, bibmaps, nodes, references, media>>

\* GET /api/nodes/public/{node_id}/media
get_public_node_media ==
    /\ \E node_id \in RequestIds(nodes) :
         resp' = PublicMatch("get_public_node_media", media, node_id)
    /\ UNCHANGED <<users, taxonomies, connections, bibmaps, nodes, references, media>>

\* DELETE /api/references/{reference_id}
delete_reference ==
    /\ \E token \in Tokens, id \in RequestIds(references) :
         IF id \notin DOMAIN references
         THEN /\ resp' = Response("delete_reference", token, id, 404, <<>>)
              /\ UNCHANGED references
         ELSE IF ~check_ownership(get_current_user_for_write(token),
                                  references[id].user_id)
         THEN /\ resp' = Response("delete_reference", token, id, 403, <<>>)
              /\ UNCHANGED references
         ELSE /\ references' = [i \in DOMAIN references \ {id} |-> references[i]]
              /\ resp' = Response("delete_reference", token, id, 204, <<>>)
    /\ UNCHANGED <<users, taxonomies, connections, bibmaps, nodes, media>>

\* DELETE /api/media/{media_id}
delete_media ==
    /\ \E token \in Tokens, id \in RequestIds(media) :
         IF id \notin DOMAIN media
         THEN /\ resp' = Response("delete_media", token, id, 404, <<>>)
              /\ UNCHANGED media
         ELSE IF ~check_ownership(get_current_user(token), media[id].user_id)
         THEN /\ resp' = Response("delete_media", token, id, 403, <<>>)
              /\ UNCHANGED media
         ELSE /\ media' = [i \in DOMAIN media \ {id} |-> media[i]]
              /\ resp' = Response("delete_media", token, id, 204, <<>>)
    /\ UNCHANGED <<users, taxonomies, connections, bibmaps, nodes, references>>

\* The taxonomy_id query parameter of the list requests: none (0, false in
\* Python as None is) or a taxonomy id.
TaxonomyFilters == {0} \cup DOMAIN taxonomies

\* The answer of list_references / list_media: the rows the requester's query
\* keeps, of the taxonomy when one is given, as the response model takes them.
ListResponse(op, table, token, taxonomy_id, ids) ==
    LET body == [k \in DOMAIN ids |->
                    [id |-> ids[k],
                     legend_category |-> table[ids[k]].legend_category,
                     user_id |-> table[ids[k]].user_id,
                     match_reasons |-> <<>>]]
    IN  IF \A k \in DOMAIN body : ResponseModelValid(op, body[k])
        THEN Response(op, token, taxonomy_id, 200, body)
        ELSE Response(op, token, taxonomy_id, 500, <<>>)

\* The rows of UserRows that the taxonomy_id parameter keeps.
ListedRows(table, token, taxonomy_id) ==
    {i \in UserRows(table, get_current_user(token)) :
        taxonomy_id # 0 => taxonomy_id \in table[i].taxonomies}

\* The elements of a set of integers in descending order.
RECURSIVE SortedSeqDesc(_)
SortedSeqDesc(S) ==
    IF S = {} THEN <<>>
    ELSE LET m == CHOOSE x \in S : \A y \in S : y <= x
         IN  <<m>> \o SortedSeqDesc(S \ {m})

\* GET /api/references/
list_references ==
    /\ \E token \in Tokens, taxonomy_id \in TaxonomyFilters :
         resp' = ListResponse("list_references", references, token, taxonomy_id,
                     SortedSeq(ListedRows(references, token, taxonomy_id)))
    /\ UNCHANGED <<users, taxonomies, connections, bibmaps, nodes, references, media>>

\* GET /api/media/: newest first.
list_media ==
    /\ \E token \in Tokens, taxonomy_id \in TaxonomyFilters :
         resp' = ListResponse("list_media", media, token, taxonomy_id,
                     SortedSeqDesc(ListedRows(media, token, taxonomy_id)))
    /\ UNCHANGED <<users, taxonomies, connections, bibmaps, nodes, references, media>>

-----------------------------------------------------------------------------
(* routers/bibmaps.py, routers/nodes.py, routers/connections.py: maps,      *)
(* their nodes and the connections between nodes.                           *)

\* schemas.BibMap declares user_id: Optional[str] over the Integer column,
\* as schemas.Reference does.
BibMapSchemaValid(row) == row.user_id = NoUser

\* verify_bibmap_access: 404 without the map, 403 without access to it; 200
\* stands for the return of the map.
verify_bibmap_access(bibmap_id, user) ==
    IF bibmap_id \notin DOMAIN bibmaps THEN 404
    ELSE IF ~check_ownership(user, bibmaps[bibmap_id].user_id) THEN 403
    ELSE 200

\* A table without the rows of ids.
WithoutRows(table, ids) == [i \in DOMAIN table \ ids |-> table[i]]

\* POST /api/bibmaps/
create_bibmap ==
    /\ NewId(bibmaps) <= MaxBibmaps
    /\ \E token \in Tokens :
         LET id == NewId(bibmaps)
             row == [user_id |-> get_current_user_for_write(token),
                     is_published |-> FALSE]
         IN  /\ bibmaps' = bibmaps @@ (id :> row)
             /\ resp' = Response("create_bibmap", token, id,
                           IF BibMapSchemaValid(row) THEN 201 ELSE 500, <<>>)
    /\ UNCHANGED <<users, taxonomies, nodes, connections, references, media>>

\* GET /api/bibmaps/{bibmap_id}
get_bibmap ==
    /\ \E token \in Tokens, id \in RequestIds(bibmaps) :
         LET access == verify_bibmap_access(id, get_current_user(token))
         IN  resp' = Response("get_bibmap", token, id,
                       IF access # 200 THEN access
                       ELSE IF BibMapSchemaValid(bibmaps[id]) THEN 200 ELSE 500,
                       <<>>)
    /\ UNCHANGED <<users, taxonomies, bibmaps, nodes, connections, references,
                   media>>

\* The bodies of a PUT /api/bibmaps/{bibmap_id}: is_published set to true or
\* false, or left out (the title alone is set).
BibMapUpdates ==
    {[has_is_published |-> TRUE, is_published |-> p] : p \in BOOLEAN}
    \cup {[has_is_published |-> FALSE, is_published |-> FALSE]}

\* A write to a map that passed the access test: the row becomes row, and
\* the answer is 200, or 500 when the response model rejects the row.
\* Without the map 404, without access 403, and nothing is written.
WriteBibMap(op, token, id, row) ==
    LET access == verify_bibmap_access(id, get_current_user_for_write(token))
    IN  IF access # 200
        THEN /\ resp' = Response(op, token, id, access, <<>>)
             /\ UNCHANGED bibmaps
        ELSE /\ bibmaps' = [bibmaps EXCEPT ![id] = row]
             /\ resp' = Response(op, token, id,
                           IF BibMapSchemaValid(row) THEN 200 ELSE 500, <<>>)

\* PUT /api/bibmaps/{bibmap_id}
update_bibmap ==
    /\ \E token \in Tokens, id \in RequestIds(bibmaps), update \in BibMapUpdates :
         WriteBibMap("update_bibmap", token, id,
            IF id \in DOMAIN bibmaps /\ update.has_is_published
            THEN [bibmaps[id] EXCEPT !.is_published = update.is_published]
            ELSE IF id \in DOMAIN bibmaps THEN bibmaps[id] ELSE <<>>)
    /\ UNCHANGED <<users, taxonomies, nodes, connections, references, media>>

\* PUT /api/bibmaps/{bibmap_id}/publish
publish_bibmap ==
    /\ \E token \in Tokens, id \in RequestIds(bibmaps) :
         WriteBibMap("publish_bibmap", token, id,
            IF id \in DOMAIN bibmaps
            THEN [bibmaps[id] EXCEPT !.is_published = TRUE] ELSE <<>>)
    /\ UNCHANGED <<users, taxonomies, nodes, connections, references, media>>

\* PUT /api/bibmaps/{bibmap_id}/unpublish
unpublish_bibmap ==
    /\ \E token \in Tokens, id \in RequestIds(bibmaps) :
         WriteBibMap("unpublish_bibmap", token, id,
            IF id \in DOMAIN bibmaps
            THEN [bibmaps[id] EXCEPT !.is_published = FALSE] ELSE <<>>)
    /\ UNCHANGED <<users, taxonomies, nodes, connections, references, media>>

\* The connections that go when the nodes ids go: cascade of
\* Node.outgoing_connections and Node.incoming_connections.
ConnectionsOfNodes(ids) ==
    {c \in DOMAIN connections :
        connections[c].source_node_id \in ids
           \/ connections[c].target_node_id \in ids}

\* DELETE /api/bibmaps/{bibmap_id}: the map goes with its nodes and its
\* connections (cascade of BibMap.nodes and BibMap.connections), and each
\* node with the connections at it.
delete_bibmap ==
    /\ \E token \in Tokens, id \in RequestIds(bibmaps) :
         LET access == verify_bibmap_access(id, get_current_user_for_write(token))
             gone == {n \in DOMAIN nodes : nodes[n].bibmap_id = id}
         IN  IF access # 200
             THEN /\ resp' = Response("delete_bibmap", token, id, access, <<>>)
                  /\ UNCHANGED <<bibmaps, nodes, connections>>
             ELSE /\ bibmaps' = WithoutRows(bibmaps, {id})
                  /\ nodes' = WithoutRows(nodes, gone)
                  /\ connections' =
                       WithoutRows(connections,
                          {c \in DOMAIN connections : connections[c].bibmap_id = id}
                             \cup ConnectionsOfNodes(gone))
                  /\ resp' = Response("delete_bibmap", token, id, 204, <<>>)
    /\ UNCHANGED <<users, taxonomies, references, media>>

\* GET /api/bibmaps/public/{bibmap_id}
get_public_bibmap ==
    /\ \E id \in RequestIds(bibmaps) :
         resp' = Response("get_public_bibmap", NoUser, id,
                   IF id \notin DOMAIN bibmaps THEN 404
                   ELSE IF ~bibmaps[id].is_published THEN 403
                   ELSE IF BibMapSchemaValid(bibmaps[id]) THEN 200 ELSE 500,
                   <<>>)
    /\ UNCHANGED <<users, taxonomies, bibmaps, nodes, connections, references,
                   media>>

\* POST /api/nodes/ with the defaults of NodeCreate: the default color and
\* no taxonomy_ids.
create_node ==
    /\ \E token \in Tokens, bibmap_id \in RequestIds(bibmaps) :
         LET access == verify_bibmap_access(bibmap_id, get_current_user(token))
             id == NewId(nodes)
         IN  IF access # 200
             THEN /\ resp' = Response("create_node", token, bibmap_id, access, <<>>)
                  /\ UNCHANGED nodes
             ELSE /\ NewId(nodes) <= MaxNodes
                  /\ nodes' = nodes @@
                       (id :> [bibmap_id |-> bibmap_id,
                               background_color |-> DefaultColor,
                               taxonomies |-> {}])
                  /\ resp' = Response("create_node", token, id, 201, <<>>)
    /\ UNCHANGED <<users, taxonomies, bibmaps, connections, references, media>>

\* DELETE /api/nodes/{node_id}
delete_node ==
    /\ \E token \in Tokens, id \in RequestIds(nodes) :
         LET access == IF id \notin DOMAIN nodes THEN 404
                       ELSE verify_bibmap_access(nodes[id].bibmap_id,
                                                 get_current_user(token))
         IN  IF access # 200
             THEN /\ resp' = Response("delete_node", token, id, access, <<>>)
                  /\ UNCHANGED <<nodes, connections>>
             ELSE /\ nodes' = WithoutRows(nodes, {id})
                  /\ connections' = WithoutRows(connections, ConnectionsOfNodes({id}))
                  /\ resp' = Response("delete_node", token, id, 204, <<>>)
    /\ UNCHANGED <<users, taxonomies, bibmaps, references, media>>

\* The query without the test of the node's map.
NodeInBibMap_any_map(node_id, bibmap_id) ==
    node_id \in DOMAIN nodes

\* db.query(Node).filter(Node.id == node_id, Node.bibmap_id == bibmap_id).first()
NodeInBibMap(node_id, bibmap_id) ==
    node_id \in DOMAIN nodes /\ nodes[node_id].bibmap_id = bibmap_id

\* POST /api/connections/
create_connection ==
    /\ \E token \in Tokens, bibmap_id \in RequestIds(bibmaps),
          source_node_id \in RequestIds(nodes), target_node_id \in RequestIds(nodes) :
         LET access == verify_bibmap_access(bibmap_id,
                                            get_current_user_for_write(token))
             id == NewId(connections)
         IN  IF access # 200
             THEN /\ resp' = Response("create_connection", token, bibmap_id,
                                      access, <<>>)
                  /\ UNCHANGED connections
             ELSE IF \/ ~NodeInBibMap(source_node_id, bibmap_id)
                     \/ ~NodeInBibMap(target_node_id, bibmap_id)
                     \/ source_node_id = target_node_id
             THEN /\ resp' = Response("create_connection", token, bibmap_id,
                                      400, <<>>)
                  /\ UNCHANGED connections
             ELSE /\ NewId(connections) <= MaxConnections
                  /\ connections' = connections @@
                       (id :> [bibmap_id |-> bibmap_id,
                               source_node_id |-> source_node_id,
                               target_node_id |-> target_node_id])
                  /\ resp' = Response("create_connection", token, id, 201, <<>>)
    /\ UNCHANGED <<users, taxonomies, bibmaps, nodes, references, media>>

\* The bodies of a PUT /api/connections/{connection_id}: source_node_id,
\* target_node_id or both set.
ConnectionUpdates ==
    {u \in [has_source : BOOLEAN, source_node_id : {0} \cup RequestIds(nodes),
            has_target : BOOLEAN, target_node_id : {0} \cup RequestIds(nodes)] :
        /\ u.has_source \/ u.has_target
        /\ u.has_source <=> u.source_node_id # 0
        /\ u.has_target <=> u.target_node_id # 0}

\* PUT /api/connections/{connection_id}: a node set in the body has to be
\* in the connection's map; the fields are then set as given.
update_connection ==
    /\ \E token \in Tokens, id \in RequestIds(connections),
          update \in ConnectionUpdates :
         LET access == IF id \notin DOMAIN connections THEN 404
                       ELSE verify_bibmap_access(connections[id].bibmap_id,
                               get_current_user_for_write(token))
         IN  IF access # 200
             THEN /\ resp' = Response("update_connection", token, id, access, <<>>)
                  /\ UNCHANGED connections
             ELSE IF \/ /\ update.has_source
                        /\ ~NodeInBibMap(update.source_node_id,
                                         connections[id].bibmap_id)
                     \/ /\ update.has_target
                        /\ ~NodeInBibMap(update.target_node_id,
                                         connections[id].bibmap_id)
             THEN /\ resp' = Response("update_connection", token, id, 400, <<>>)
                  /\ UNCHANGED connections
             ELSE /\ connections' =
                       [connections EXCEPT
                          ![id].source_node_id =
                              IF update.has_source THEN update.source_node_id ELSE @,
                          ![id].target_node_id =
                              IF update.has_target THEN update.target_node_id ELSE @]
                  /\ resp' = Response("update_connection", token, id, 200, <<>>)
    /\ UNCHANGED <<users, taxonomies, bibmaps, nodes, references, media>>

\* DELETE /api/connections/{connection_id}
delete_connection ==
    /\ \E token \in Tokens, id \in RequestIds(connections) :
         LET access == IF id \notin DOMAIN connections THEN 404
                       ELSE verify_bibmap_access(connections[id].bibmap_id,
                               get_current_user_for_write(token))
         IN  IF access # 200
             THEN /\ resp' = Response("delete_connection", token, id, access, <<>>)
                  /\ UNCHANGED connections
             ELSE /\ connections' = WithoutRows(connections, {id})
                  /\ resp' = Response("delete_connection", token, id, 204, <<>>)
    /\ UNCHANGED <<users, taxonomies, bibmaps, nodes, references, media>>

\* GET /api/references/{reference_id}
get_reference ==
    /\ \E token \in Tokens, id \in RequestIds(references) :
         resp' = Response("get_reference", token, id,
                   IF id \notin DOMAIN references THEN 404
                   ELSE IF ~check_ownership(get_current_user(token),
                                            references[id].user_id) THEN 403
                   ELSE IF ReferenceSchemaValid(references[id]) THEN 200 ELSE 500,
                   <<>>)
    /\ UNCHANGED <<users, taxonomies, bibmaps, nodes, connections, references,
                   media>>

\* GET /api/media/{media_id}
get_media ==
    /\ \E token \in Tokens, id \in RequestIds(media) :
         resp' = Response("get_media", token, id,
                   IF id \notin DOMAIN media THEN 404
                   ELSE IF ~check_ownership(get_current_user(token),
                                            media[id].user_id) THEN 403
                   ELSE 200,
                   <<>>)
    /\ UNCHANGED <<users, taxonomies, bibmaps, nodes, connections, references,
                   media>>

-----------------------------------------------------------------------------
(* routers/references.py: import_bibtex and update_reference_from_bibtex.   *)
(* parse_bibtex is the bibtexparser library: its result, the entries (here  *)
(* their keys) and the parse errors, is an input of the handlers.           *)

ImportKeys == {"k1", "k2"}

\* The sequences over S of length at most n.
SeqUpTo(S, n) == UNION {[1..m -> S] : m \in 0..n}

\* What parse_bibtex returns: the entries and no error, or, when
\* bibtexparser.loads raises, no entry and one error.
ParseResults ==
    {[entries |-> e, parse_errors |-> <<>>] : e \in SeqUpTo(ImportKeys, MaxEntries)}
    \cup {[entries |-> <<>>, parse_errors |-> <<<<"BibTeX parsing error: ", "">>>>]}

\* Mutant of BibtexKeyUnique: the column has no unique constraint.
BibtexKeyUnique_unenforced(table) == TRUE

\* Column bibtex_key is unique=True: a commit that would store the same key
\* twice raises an IntegrityError.
BibtexKeyUnique(table) ==
    \A i, j \in DOMAIN table :
       table[i].bibtex_key = table[j].bibtex_key => i = j

\* Mutant of import_bibtex_loop: the test for an existing key is missing.
RECURSIVE import_bibtex_loop_no_duplicate_test(_, _, _)
import_bibtex_loop_no_duplicate_test(request, k, acc) ==
    IF k > Len(request.entries) THEN acc
    ELSE LET key == request.entries[k]
             id == NewId(acc.references)
             row == [bibtex_key |-> key,
                     legend_category |-> NormalizedLegend(request.legend_category),
                     user_id |-> request.user,
                     taxonomies |-> ExistingTaxonomies(request.taxonomy_ids)]
         IN  IF k \in request.fails
                   \/ ~BibtexKeyUnique(acc.references @@ (id :> row))
             THEN import_bibtex_loop_no_duplicate_test(request, k + 1,
                     [acc EXCEPT !.errors = Append(@, <<"Error importing ", key>>)])
             ELSE import_bibtex_loop_no_duplicate_test(request, k + 1,
                     [acc EXCEPT !.references = @ @@ (id :> row),
                                 !.imported = Append(@, id)])

\* import_bibtex, the loop from entry k on.  acc holds the table, the ids
\* imported and the error strings so far.  An entry whose key is stored is
\* skipped; an entry whose commit raises (request.fails, or the unique
\* constraint) is rolled back and recorded; the loop goes on.
RECURSIVE import_bibtex_loop(_, _, _)
import_bibtex_loop(request, k, acc) ==
    IF k > Len(request.entries) THEN acc
    ELSE LET key == request.entries[k]
             id == NewId(acc.references)
             row == [bibtex_key |-> key,
                     legend_category |-> NormalizedLegend(request.legend_category),
                     user_id |-> request.user,
                     taxonomies |-> ExistingTaxonomies(request.taxonomy_ids)]
         IN  IF \E r \in DOMAIN acc.references :
                   acc.references[r].bibtex_key = key
             THEN import_bibtex_loop(request, k + 1,
                     [acc EXCEPT !.errors = Append(@, <<"Skipped duplicate: ", key>>)])
             ELSE IF k \in request.fails
                        \/ ~BibtexKeyUnique(acc.references @@ (id :> row))
             THEN import_bibtex_loop(request, k + 1,
                     [acc EXCEPT !.errors = Append(@, <<"Error importing ", key>>)])
             ELSE import_bibtex_loop(request, k + 1,
                     [acc EXCEPT !.references = @ @@ (id :> row),
                                 !.imported = Append(@, id)])

\* schemas.BibTeXImportResult(imported, errors, references): references is a
\* List[schemas.Reference], validated when the result is built.
BibTeXImportResult(acc) ==
    [imported |-> Len(acc.imported), errors |-> acc.errors,
     references |-> acc.imported]

\* The response to an import: request holds the keys of the parsed entries.
ImportResponse(token, entries, status, body) ==
    [Response("import_bibtex", token, 0, status, body) EXCEPT !.request = entries]

\* POST /api/references/import.  resp.request holds the parsed entries.  The
\* rows are committed one by one before the result is built: 200 with the
\* result, or 500 when the result model rejects an imported row.
import_bibtex ==
    /\ \E token \in Tokens, parsed \in ParseResults,
          legend \in {<<"#", "a", "b", "c", "d", "e", "f">>},
          taxonomy_ids \in SUBSET DOMAIN taxonomies :
       \E fails \in SUBSET DOMAIN parsed.entries :
         LET request == [entries |-> parsed.entries, fails |-> fails,
                         user |-> get_current_user_for_write(token),
                         legend_category |-> legend,
                         taxonomy_ids |-> taxonomy_ids]
             acc == import_bibtex_loop(request, 1,
                       [references |-> references, imported |-> <<>>,
                        errors |-> parsed.parse_errors])
         IN  /\ \A id \in DOMAIN acc.references : id <= MaxReferences
             /\ references' = acc.references
             /\ resp' = IF \A k \in DOMAIN acc.imported :
                              ReferenceSchemaValid(acc.references[acc.imported[k]])
                        THEN ImportResponse(token, parsed.entries, 200,
                                            <<BibTeXImportResult(acc)>>)
                        ELSE ImportResponse(token, parsed.entries, 500, <<>>)
    /\ UNCHANGED <<users, taxonomies, connections, bibmaps, nodes, media>>

\* PUT /api/references/{reference_id}/bibtex: the key of the first parsed
\* entry becomes the reference's key; no test for a stored key is made, the
\* unique constraint fails the commit (500) and nothing is written.
update_reference_from_bibtex ==
    /\ \E token \in Tokens, id \in RequestIds(references), parsed \in ParseResults :
         IF id \notin DOMAIN references
         THEN /\ resp' = Response("update_reference_from_bibtex", token, id, 404, <<>>)
              /\ UNCHANGED references
         ELSE IF ~check_ownership(get_current_user_for_write(token),
                                  references[id].user_id)
         THEN /\ resp' = Response("update_reference_from_bibtex", token, id, 403, <<>>)
              /\ UNCHANGED references
         ELSE IF parsed.parse_errors # <<>> \/ parsed.entries = <<>>
         THEN /\ resp' = Response("update_reference_from_bibtex", token, id, 400, <<>>)
              /\ UNCHANGED references
         ELSE LET row == [references[id] EXCEPT !.bibtex_key = parsed.entries[1]]
                  table == [references EXCEPT ![id] = row]
              IN  IF ~BibtexKeyUnique(table)
                  THEN /\ resp' = Response("update_reference_from_bibtex", token,
                                           id, 500, <<>>)
                       /\ UNCHANGED references
                  ELSE /\ references' = table
                       /\ resp' = Response("update_reference_from_bibtex", token, id,
                                     IF ReferenceSchemaValid(row) THEN 200 ELSE 500,
                                     <<>>)
    /\ UNCHANGED <<users, taxonomies, connections, bibmaps, nodes, media>>

\* The migrator is not run while the application serves requests: its
\* variables hold nothing.
MigratorIdle ==
    /\ fileExists = TRUE /\ db = <<>> /\ backups = <<>> /\ pc = "idle"
    /\ args = <<>> /\ dbAtStart = <<>> /\ last = <<>> /\ issues = <<>>
    /\ exitCode = -1 /\ runs = 0 /\ backupsAtStart = 0 /\ firstLive = <<>>

\* An admin (id 1) and a user (id 2) are registered, the taxonomies
\* 1..MaxTaxonomies exist, and one map, of any owner, published or not, holds
\* one node.
InitMatch ==
    /\ users = (1 :> [role |-> "admin", is_active |-> TRUE])
               @@ (2 :> [role |-> "user", is_active |-> TRUE])
    /\ taxonomies = [t \in 1..MaxTaxonomies |->
                        [user_id |-> NoUser, is_global |-> TRUE]]
    /\ \E owner \in {NoUser, 1, 2}, published \in BOOLEAN :
         bibmaps = (1 :> [user_id |-> owner, is_published |-> published])
    /\ \E c \in Colors, t \in SUBSET (1..MaxTaxonomies) :
         nodes = (1 :> [bibmap_id |-> 1, background_color |-> c, taxonomies |-> t])
    /\ connections = <<>>
    /\ references = <<>>
    /\ media = <<>>
    /\ resp = NoResponse
    /\ MigratorIdle
    /\ AuthIdle

NextMatch ==
    \/ create_reference /\ UNCHANGED <<migVars, authVars>>
    \/ update_reference /\ UNCHANGED <<migVars, authVars>>
    \/ create_media /\ UNCHANGED <<migVars, authVars>>
    \/ update_media /\ UNCHANGED <<migVars, authVars>>
    \/ update_node /\ UNCHANGED <<migVars, authVars>>
    \/ get_node_references /\ UNCHANGED <<migVars, authVars>>
    \/ get_node_media /\ UNCHANGED <<migVars, authVars>>
    \/ get_public_node_references /\ UNCHANGED <<migVars, authVars>>
    \/ get_public_node_media /\ UNCHANGED <<migVars, authVars>>
    \/ delete_reference /\ UNCHANGED <<migVars, authVars>>
    \/ delete_media /\ UNCHANGED <<migVars, authVars>>
    \/ list_references /\ UNCHANGED <<migVars, authVars>>
    \/ list_media /\ UNCHANGED <<migVars, authVars>>

SpecMatch == InitMatch /\ [][NextMatch]_vars

\* Local mode: nobody is registered, every request is anonymous, and no map
\* exists yet.
InitMap ==
    /\ users = <<>>
    /\ taxonomies = <<>>
    /\ bibmaps = <<>>
    /\ nodes = <<>>
    /\ connections = <<>>
    /\ references = <<>>
    /\ media = <<>>
    /\ resp = NoResponse
    /\ MigratorIdle
    /\ AuthIdle

NextMap ==
    \/ create_bibmap /\ UNCHANGED <<migVars, authVars>>
    \/ update_bibmap /\ UNCHANGED <<migVars, authVars>>
    \/ publish_bibmap /\ UNCHANGED <<migVars, authVars>>
    \/ unpublish_bibmap /\ UNCHANGED <<migVars, authVars>>
    \/ delete_bibmap /\ UNCHANGED <<migVars, authVars>>
    \/ get_public_bibmap /\ UNCHANGED <<migVars, authVars>>
    \/ get_public_node_references /\ UNCHANGED <<migVars, authVars>>
    \/ get_public_node_media /\ UNCHANGED <<migVars, authVars>>
    \/ create_node /\ UNCHANGED <<migVars, authVars>>
    \/ delete_node /\ UNCHANGED <<migVars, authVars>>
    \/ create_connection /\ UNCHANGED <<migVars, authVars>>
    \/ update_connection /\ UNCHANGED <<migVars, authVars>>
    \/ delete_connection /\ UNCHANGED <<migVars, authVars>>

SpecMap == InitMap /\ [][NextMap]_vars

\* An admin (id 1) and a user (id 2) are registered; no map, reference or
\* medium exists yet.
InitAccess ==
    /\ users = (1 :> [role |-> "admin", is_active |-> TRUE])
               @@ (2 :> [role |-> "user", is_active |-> TRUE])
    /\ taxonomies = <<>>
    /\ bibmaps = <<>>
    /\ nodes = <<>>
    /\ connections = <<>>
    /\ references = <<>>
    /\ media = <<>>
    /\ resp = NoResponse
    /\ MigratorIdle
    /\ AuthIdle

NextAccess ==
    \/ create_bibmap /\ UNCHANGED <<migVars, authVars>>
    \/ get_bibmap /\ UNCHANGED <<migVars, authVars>>
    \/ update_bibmap /\ UNCHANGED <<migVars, authVars>>
    \/ publish_bibmap /\ UNCHANGED <<migVars, authVars>>
    \/ unpublish_bibmap /\ UNCHANGED <<migVars, authVars>>
    \/ delete_bibmap /\ UNCHANGED <<migVars, authVars>>
    \/ create_reference /\ UNCHANGED <<migVars, authVars>>
    \/ get_reference /\ UNCHANGED <<migVars, authVars>>
    \/ update_reference /\ UNCHANGED <<migVars, authVars>>
    \/ delete_reference /\ UNCHANGED <<migVars, authVars>>
    \/ create_media /\ UNCHANGED <<migVars, authVars>>
    \/ get_media /\ UNCHANGED <<migVars, authVars>>
    \/ update_media /\ UNCHANGED <<migVars, authVars>>
    \/ delete_media /\ UNCHANGED <<migVars, authVars>>

SpecAccess == InitAccess /\ [][NextAccess]_vars

\* The library of InitAccess, under the handlers that set a bibtex_key.
NextImport ==
    \/ create_reference /\ UNCHANGED <<migVars, authVars>>
    \/ import_bibtex /\ UNCHANGED <<migVars, authVars>>
    \/ update_reference_from_bibtex /\ UNCHANGED <<migVars, authVars>>
    \/ delete_reference /\ UNCHANGED <<migVars, authVars>>

SpecImport == InitAccess /\ [][NextImport]_vars

-----------------------------------------------------------------------------
(* Claims about the matching queries.  resp is the answer to the last       *)
(* request, given on the tables as they are.                                *)

PrivateOps == {"get_node_references", "get_node_media"}

MatchOps ==
    PrivateOps \cup {"get_public_node_references", "get_public_node_media"}

\* The table the last query selected from.
QueriedTable ==
    IF resp.op \in {"get_node_references", "get_public_node_references",
                    "list_references"}
    THEN references ELSE media

EqualIgnoringCase(a, b) == Upper(a) = Upper(b)

\* The rows a requester may see: all for an admin, their own for a user,
\* those without owner for an anonymous requester.
VisibleTo(token, row) ==
    LET user == get_current_user(token)
    IN  IF user = NoUser THEN row.user_id = NoUser
        ELSE users[user].role = "admin" \/ row.user_id = user

\* The requester may read the map of the node.
MayAccess(token, node) ==
    check_ownership(get_current_user(token), bibmaps[node.bibmap_id].user_id)

LegendReasonCount(item) ==
    Cardinality({j \in DOMAIN item.match_reasons :
                    item.match_reasons[j].type = "legend_category"})

\* C9: when a requester with access to the map asks for the references or
\* the media of a node whose background_color is not the default color,
\* every row visible to the requester whose legend_category equals that
\* color, letter case ignored, is in the answer with exactly one match
\* reason of type legend_category.
C9_LegendCaseInsensitive ==
    (/\ resp.op \in PrivateOps
     /\ MayAccess(resp.user, nodes[resp.id])
     /\ nodes[resp.id].background_color # NoColor
     /\ ~EqualIgnoringCase(nodes[resp.id].background_color, DefaultColor))
    => \A i \in DOMAIN QueriedTable :
          (/\ VisibleTo(resp.user, QueriedTable[i])
           /\ QueriedTable[i].legend_category # NoColor
           /\ EqualIgnoringCase(QueriedTable[i].legend_category,
                                nodes[resp.id].background_color))
          => \E k \in DOMAIN resp.body :
                resp.body[k].id = i /\ LegendReasonCount(resp.body[k]) = 1

\* C10: for a node whose background_color is the default color in any
\* letter case, each of the four matching queries answers only rows that
\* share a taxonomy with the node, none of them with a match reason of type
\* legend_category.
C10_DefaultColorExclusion ==
    (/\ resp.op \in MatchOps
     /\ resp.id \in DOMAIN nodes
     /\ EqualIgnoringCase(nodes[resp.id].background_color, DefaultColor))
    => \A k \in DOMAIN resp.body :
          /\ QueriedTable[resp.body[k].id].taxonomies
                \cap nodes[resp.id].taxonomies # {}
          /\ LegendReasonCount(resp.body[k]) = 0

\* C10 witness: a node colored #3b82f6 with taxonomy 1; the reference with
\* legend_category #3B82F6 and taxonomy 1 is answered for the taxonomy only.
C10_Witness ==
    /\ resp.op = "get_node_references" /\ resp.status = 200
    /\ nodes[resp.id].background_color = <<"#", "3", "b", "8", "2", "f", "6">>
    /\ Len(resp.body) = 1
    /\ resp.body[1].legend_category = DefaultColor
    /\ resp.body[1].match_reasons = <<TaxonomyReason(1)>>

\* The legend condition of a row for a node: the node has a color other
\* than the default one and the row's legend_category equals it, letter case
\* ignored.
LegendConditionHolds(row, node) ==
    /\ node.background_color # NoColor
    /\ ~EqualIgnoringCase(node.background_color, DefaultColor)
    /\ row.legend_category # NoColor
    /\ EqualIgnoringCase(row.legend_category, node.background_color)

TaxonomyReasonCount(item, taxonomy_id) ==
    Cardinality({j \in DOMAIN item.match_reasons :
                    /\ item.match_reasons[j].type = "taxonomy"
                    /\ item.match_reasons[j].taxonomy_id = taxonomy_id})

-----------------------------------------------------------------------------
(* Claims about the visibility filter.                                      *)

ListOps == {"list_references", "list_media"}

\* The row satisfies what the last query asked for: the taxonomy_id of a
\* list request (resp.id), or a shared taxonomy or the legend condition of
\* the node (resp.id) of a matching request.
Asked(row) ==
    IF resp.op \in ListOps
    THEN resp.id # 0 => resp.id \in row.taxonomies
    ELSE \/ row.taxonomies \cap nodes[resp.id].taxonomies # {}
         \/ LegendConditionHolds(row, nodes[resp.id])

\* C12: list_references, list_media, get_node_references and get_node_media
\* answer a user who is no admin only with rows of that user, an anonymous
\* requester only with rows without owner, and an admin with the rows of
\* every owner that the request asks for.
C12_VisibilityFilter ==
    resp.op \in ListOps \cup PrivateOps =>
        /\ \A k \in DOMAIN resp.body :
              VisibleTo(resp.user, QueriedTable[resp.body[k].id])
        /\ (resp.user # NoUser /\ users[resp.user].role = "admin") =>
              \A i \in DOMAIN QueriedTable :
                 Asked(QueriedTable[i]) =>
                    \E k \in DOMAIN resp.body : resp.body[k].id = i

\* The part of C12 about users and anonymous requesters.
C12_OnlyVisibleRows ==
    resp.op \in ListOps \cup PrivateOps =>
        \A k \in DOMAIN resp.body :
           VisibleTo(resp.user, QueriedTable[resp.body[k].id])

-----------------------------------------------------------------------------
(* Claims about the public matching queries.                                *)

PublicOps == {"get_public_node_references", "get_public_node_media"}

\* C13: the public matching queries answer only rows whose user_id is the
\* user_id of the map that holds the node (rows without owner for a map
\* without owner), whoever asks.
C13_PublicOwnerOnly ==
    (resp.op \in PublicOps /\ resp.id \in DOMAIN nodes) =>
        \A k \in DOMAIN resp.body :
           QueriedTable[resp.body[k].id].user_id
              = bibmaps[nodes[resp.id].bibmap_id].user_id

\* C13 witness: the public query on the node of a published map of user 2
\* answers a medium of user 2.
C13_Witness ==
    /\ resp.op = "get_public_node_media" /\ resp.status = 200
    /\ bibmaps[nodes[resp.id].bibmap_id].user_id = 2
    /\ Len(resp.body) = 1
    /\ resp.body[1].user_id = 2

-----------------------------------------------------------------------------
(* Claims about publication.                                                *)

\* The map a public request is about: the map asked for, or the map of the
\* node asked for; 0 when the map or the node does not exist.
PublicTarget ==
    IF resp.op = "get_public_bibmap"
    THEN (IF resp.id \in DOMAIN bibmaps THEN resp.id ELSE 0)
    ELSE IF resp.id \in DOMAIN nodes /\ nodes[resp.id].bibmap_id \in DOMAIN bibmaps
    THEN nodes[resp.id].bibmap_id ELSE 0

\* C14: get_public_bibmap, get_public_node_references and
\* get_public_node_media answer 404 when the map or the node does not
\* exist, 403 when the map is not published at that moment, and 200 only
\* when it is; after publish_bibmap the map is published and after
\* unpublish_bibmap it is not, whatever it was before.
C14_PublicOnlyWhilePublished ==
    /\ resp.op \in PublicOps \cup {"get_public_bibmap"} =>
          /\ PublicTarget = 0 => resp.status = 404
          /\ (PublicTarget # 0 /\ ~bibmaps[PublicTarget].is_published)
                => resp.status = 403
          /\ resp.status = 200
                => PublicTarget # 0 /\ bibmaps[PublicTarget].is_published
    /\ (resp.op = "publish_bibmap" /\ resp.status \notin {403, 404})
          => bibmaps[resp.id].is_published
    /\ (resp.op = "unpublish_bibmap" /\ resp.status \notin {403, 404})
          => ~bibmaps[resp.id].is_published

\* C14 witness: the public query on a node of a published map is answered
\* while another map is not published.
C14_Witness ==
    /\ resp.op = "get_public_node_references" /\ resp.status = 200
    /\ \E b \in DOMAIN bibmaps : ~bibmaps[b].is_published

-----------------------------------------------------------------------------
(* Claims about access to single resources.                                 *)

BibMapOps ==
    {"get_bibmap", "update_bibmap", "delete_bibmap", "publish_bibmap",
     "unpublish_bibmap"}

ReferenceOps == {"get_reference", "update_reference", "delete_reference"}

MediaOps == {"get_media", "update_media", "delete_media"}

\* The table a request of handler op is about.
TableOf(op) ==
    IF op \in BibMapOps THEN bibmaps
    ELSE IF op \in ReferenceOps THEN references ELSE media

\* A cross-tenant request: a user who is no admin asks for a resource of
\* another user, or an anonymous requester for a resource that has an owner.
CrossTenant(token, owner_id) ==
    /\ owner_id # NoUser
    /\ \/ token = NoUser
       \/ token # owner_id /\ users[token].role # "admin"

\* C15: a get, update, delete, publish or unpublish request for a map, a
\* reference or a medium is answered 404 when the id does not exist and 403
\* when it is a cross-tenant request, and in both cases every table is left
\* as it was.
C15_NotFoundAndDenied ==
    [][resp'.op \in BibMapOps \cup ReferenceOps \cup MediaOps =>
          /\ resp'.id \notin DOMAIN TableOf(resp'.op) =>
                /\ resp'.status = 404
                /\ UNCHANGED <<users, taxonomies, bibmaps, nodes, connections,
                               references, media>>
          /\ (/\ resp'.id \in DOMAIN TableOf(resp'.op)
              /\ CrossTenant(resp'.user, TableOf(resp'.op)[resp'.id].user_id)) =>
                /\ resp'.status = 403
                /\ UNCHANGED <<users, taxonomies, bibmaps, nodes, connections,
                               references, media>>]_vars

\* C15 witness: user 2 asked to delete the reference of user 1 and was
\* denied.
C15_Witness ==
    /\ resp.op = "delete_reference" /\ resp.status = 403 /\ resp.user = 2
    /\ resp.id \in DOMAIN references
    /\ references[resp.id].user_id = 1

-----------------------------------------------------------------------------
(* Claims about bibtex_key and the BibTeX import.                           *)

\* C16: no two stored references have the same bibtex_key, after any
\* sequence of create_reference, import_bibtex, update_reference_from_bibtex
\* and delete_reference requests by any users.
C16_BibtexKeyUnique ==
    \A i, j \in DOMAIN references :
       references[i].bibtex_key = references[j].bibtex_key => i = j

\* C16 witness: two references without owner are stored and an anonymous
\* update_reference_from_bibtex that gave one the key of the other failed.
C16_Witness ==
    /\ resp.op = "update_reference_from_bibtex" /\ resp.status = 500
    /\ resp.user = NoUser
    /\ Cardinality(DOMAIN references) = 2
    /\ \A i \in DOMAIN references : references[i].user_id = NoUser

\* The keys stored in a table of references.
KeysOf(table) == {table[i].bibtex_key : i \in DOMAIN table}

\* How many of the entries have the key.
Occurrences(entries, key) ==
    Cardinality({k \in DOMAIN entries : entries[k] = key})

\* How many of the error strings are the string for the key.
ErrorCount(errors, prefix, key) ==
    Cardinality({k \in DOMAIN errors : errors[k] = <<prefix, key>>})

\* C17: import_bibtex leaves every stored reference as it was and inserts
\* no entry whose key is stored or was inserted earlier in the call: for a
\* stored key nothing is inserted and every entry with it gives the string
\* 'Skipped duplicate: <key>'; for a key the call inserted exactly one row is
\* inserted and every other entry with it gives a skip or an error string;
\* imported counts the inserted rows; one entry with a stored key gives 200
\* and imported = 0.
C17_DuplicatesSkipped ==
    [][resp'.op = "import_bibtex" =>
         LET entries == resp'.request
             inserted == DOMAIN references' \ DOMAIN references
         IN  /\ \A r \in DOMAIN references :
                   r \in DOMAIN references' /\ references'[r] = references[r]
             /\ \A n \in inserted :
                   /\ references'[n].bibtex_key \notin KeysOf(references)
                   /\ \A m \in inserted :
                         references'[m].bibtex_key = references'[n].bibtex_key
                            => m = n
             /\ resp'.status = 200 =>
                   LET result == resp'.body[1]
                   IN  /\ result.imported = Cardinality(inserted)
                       /\ \A key \in KeysOf(references) :
                             ErrorCount(result.errors, "Skipped duplicate: ", key)
                                = Occurrences(entries, key)
                       /\ \A n \in inserted :
                             LET key == references'[n].bibtex_key
                             IN  ErrorCount(result.errors, "Skipped duplicate: ", key)
                                    + ErrorCount(result.errors, "Error importing ", key)
                                    = Occurrences(entries, key) - 1
             /\ (Len(entries) = 1 /\ entries[1] \in KeysOf(references)) =>
                   /\ resp'.status = 200
                   /\ resp'.body[1].imported = 0]_vars

\* C17 witness: an import of two entries with the stored key k1 answered
\* imported = 0 and two skip strings.
C17_Witness ==
    /\ resp.op = "import_bibtex" /\ resp.status = 200
    /\ resp.request = <<"k1", "k1">>
    /\ resp.body[1].imported = 0
    /\ resp.body[1].errors = <<<<"Skipped duplicate: ", "k1">>,
                               <<"Skipped duplicate: ", "k1">>>>

\* C18: import_bibtex answers with its result whatever entry failed: the
\* stored references stay, imported is the number of rows the call
\* inserted and the length of the returned references, and the entries are
\* accounted for, each as imported or by one skip or error string.
C18_PartialImport ==
    [][resp'.op = "import_bibtex" =>
         LET entries == resp'.request
             inserted == DOMAIN references' \ DOMAIN references
         IN  /\ resp'.status = 200
             /\ \A r \in DOMAIN references :
                   r \in DOMAIN references' /\ references'[r] = references[r]
             /\ resp'.body[1].imported = Cardinality(inserted)
             /\ Len(resp'.body[1].references) = resp'.body[1].imported
             /\ \A k \in DOMAIN resp'.body[1].references :
                   resp'.body[1].references[k] \in inserted
             /\ Len(entries) = resp'.body[1].imported
                   + Cardinality({k \in DOMAIN resp'.body[1].errors :
                        resp'.body[1].errors[k][1]
                           \in {"Skipped duplicate: ", "Error importing "}})]_vars

-----------------------------------------------------------------------------
(* Claims about maps, nodes and connections.                                *)

\* C19: every stored connection's source node and target node exist and
\* belong to the map of the connection, and every stored node belongs to a
\* stored map, after any sequence of create, update and delete requests on
\* maps, nodes and connections.
C19_ReferentialIntegrity ==
    /\ \A c \in DOMAIN connections :
          /\ connections[c].bibmap_id \in DOMAIN bibmaps
          /\ connections[c].source_node_id \in DOMAIN nodes
          /\ connections[c].target_node_id \in DOMAIN nodes
          /\ nodes[connections[c].source_node_id].bibmap_id = connections[c].bibmap_id
          /\ nodes[connections[c].target_node_id].bibmap_id = connections[c].bibmap_id
    /\ \A n \in DOMAIN nodes : nodes[n].bibmap_id \in DOMAIN bibmaps

\* C19 witness: a connection is stored, a node of another map is stored too,
\* and the update_connection that set an end to a node outside the
\* connection's map was answered 400.
C19_Witness ==
    /\ resp.op = "update_connection" /\ resp.status = 400
    /\ resp.id \in DOMAIN connections
    /\ \E n \in DOMAIN nodes : nodes[n].bibmap_id # connections[resp.id].bibmap_id

\* C20: no stored connection has source_node_id equal to target_node_id,
\* after any sequence of create_connection and update_connection requests.
C20_NoSelfConnection ==
    \A c \in DOMAIN connections :
       connections[c].source_node_id # connections[c].target_node_id

-----------------------------------------------------------------------------
(* routers/auth.py: the accounts.  Here a user row is [email, username,     *)
(* role, is_active, oauth_provider, oauth_id]; users made by register and   *)
(* create_user have a password.  A token carries the id of the user it was  *)
(* issued to; history.tokens holds the ids of the tokens issued so far.     *)

\* The largest id given to a user.
MaxUsers == 2

Emails == {"e1", "e2"}

Usernames == {"u1", "u2"}

Roles == {"admin", "user"}

\* models.User(...) of a user without OAuth provider
User(email, username, role, is_active) ==
    [email |-> email, username |-> username, role |-> role,
     is_active |-> is_active, oauth_provider |-> "", oauth_id |-> ""]

\* The response to a request about accounts: request holds the strings of
\* the body (of an update: email, username, role, is_active).
AuthResponse(op, token, id, status, request) ==
    [Response(op, token, id, status, <<>>) EXCEPT !.request = request]

\* The tokens a client can hold: none, or one that was issued.
IssuedTokens == history.tokens \cup {NoUser}

\* get_current_active_user: 401 without a current user.
get_current_active_user(token) ==
    IF get_current_user(token) = NoUser THEN 401 ELSE 200

\* get_current_admin_user: 401 without a current user, 403 unless an admin.
get_current_admin_user(token) ==
    IF get_current_user(token) = NoUser THEN 401
    ELSE IF users[get_current_user(token)].role # "admin" THEN 403
    ELSE 200

EmailTaken(email) == \E u \in DOMAIN users : users[u].email = email

UsernameTaken(username) == \E u \in DOMAIN users : users[u].username = username

\* register, its three queries: 400 for a stored email or username,
\* otherwise whether the users table is empty.
register_queries(email, username) ==
    IF EmailTaken(email) \/ UsernameTaken(username)
    THEN [status |-> 400, is_first_user |-> FALSE]
    ELSE [status |-> 201, is_first_user |-> DOMAIN users = {}]

\* Mutant of first_user_role: nobody is made admin.
first_user_role_never_admin(is_first_user) == "user"

\* The role register gives: admin to the first user.
first_user_role(is_first_user) == IF is_first_user THEN "admin" ELSE "user"

\* POST /api/auth/register, as one call that no other call overlaps.
register ==
    /\ \E email \in Emails, username \in Usernames :
         LET q == register_queries(email, username)
             id == NewId(users)
         IN  IF q.status = 400
             THEN /\ resp' = AuthResponse("register", NoUser, 0, 400,
                                          <<email, username>>)
                  /\ UNCHANGED users
             ELSE /\ id <= MaxUsers
                  /\ users' = users @@
                       (id :> User(email, username,
                                   first_user_role(q.is_first_user), TRUE))
                  /\ resp' = AuthResponse("register", NoUser, id, 201,
                                          <<email, username>>)
    /\ UNCHANGED <<taxonomies, bibmaps, nodes, connections, references, media>>
    /\ UNCHANGED authVars

\* authenticate_user: the user with this username or email, if the password
\* is the user's.
authenticate_user(username, password) ==
    IF password = "right"
       /\ \E u \in DOMAIN users :
             users[u].username = username \/ users[u].email = username
    THEN CHOOSE u \in DOMAIN users :
            users[u].username = username \/ users[u].email = username
    ELSE NoUser

\* POST /api/auth/login/json
login_json ==
    /\ \E username \in Emails \cup Usernames, password \in {"right", "wrong"} :
         LET user == authenticate_user(username, password)
             status == IF user = NoUser THEN 401
                       ELSE IF ~users[user].is_active THEN 403 ELSE 200
         IN  /\ resp' = AuthResponse("login_json", NoUser, user, status,
                                     <<username, password>>)
             /\ history' = IF status = 200
                           THEN [history EXCEPT !.tokens = @ \cup {user}]
                           ELSE history
    /\ UNCHANGED <<users, taxonomies, bibmaps, nodes, connections, references,
                   media>>
    /\ UNCHANGED <<settings, inflight, oauth_states, callbacks>>

\* GET /api/auth/me: resp.id is the account the request is served as.
get_me ==
    /\ \E token \in IssuedTokens :
         resp' = AuthResponse("get_me", token, get_current_user(token),
                              get_current_active_user(token), <<>>)
    /\ UNCHANGED <<users, taxonomies, bibmaps, nodes, connections, references,
                   media>>
    /\ UNCHANGED authVars

\* PUT /api/auth/me with an email
update_me ==
    /\ \E token \in IssuedTokens, email \in Emails :
         LET user == get_current_user(token)
         IN  IF get_current_active_user(token) # 200
             THEN /\ resp' = AuthResponse("update_me", token, 0,
                                get_current_active_user(token), <<email>>)
                  /\ UNCHANGED users
             ELSE IF email # users[user].email /\ EmailTaken(email)
             THEN /\ resp' = AuthResponse("update_me", token, user, 400, <<email>>)
                  /\ UNCHANGED users
             ELSE /\ users' = [users EXCEPT ![user].email = email]
                  /\ resp' = AuthResponse("update_me", token, user, 200, <<email>>)
    /\ UNCHANGED <<taxonomies, bibmaps, nodes, connections, references, media>>
    /\ UNCHANGED authVars

\* POST /api/auth/users
create_user ==
    /\ \E token \in IssuedTokens, email \in Emails, username \in Usernames,
          role \in Roles, is_active \in BOOLEAN :
         LET id == NewId(users)
         IN  IF get_current_admin_user(token) # 200
             THEN /\ resp' = AuthResponse("create_user", token, 0,
                                get_current_admin_user(token), <<email, username>>)
                  /\ UNCHANGED users
             ELSE IF EmailTaken(email) \/ UsernameTaken(username)
             THEN /\ resp' = AuthResponse("create_user", token, 0, 400,
                                          <<email, username>>)
                  /\ UNCHANGED users
             ELSE /\ id <= MaxUsers
                  /\ users' = users @@ (id :> User(email, username, role, is_active))
                  /\ resp' = AuthResponse("create_user", token, id, 201,
                                          <<email, username>>)
    /\ UNCHANGED <<taxonomies, bibmaps, nodes, connections, references, media>>
    /\ UNCHANGED authVars

\* A field a PUT body leaves out.
Unset == "unset"

\* The bodies of PUT /api/auth/users/{user_id}: one or two of email,
\* username, role (as the handler converts it) and is_active are set.
UserUpdates ==
    {u \in [email : Emails \cup {Unset}, username : Usernames \cup {Unset},
            role : Roles \cup {Unset}, is_active : {"true", "false", Unset}] :
        Cardinality({f \in {"email", "username", "role", "is_active"} :
                        u[f] # Unset}) \in {1, 2}}

\* for key, value in update_data.items(): setattr(user, key, value)
UpdatedUser(row, update) ==
    [row EXCEPT
       !.email = IF update.email # Unset THEN update.email ELSE @,
       !.username = IF update.username # Unset THEN update.username ELSE @,
       !.role = IF update.role # Unset THEN update.role ELSE @,
       !.is_active = IF update.is_active # Unset
                     THEN update.is_active = "true" ELSE @]

\* Mutant of update_user_status: an admin may deactivate and demote any
\* account, their own too.
update_user_status_no_self_test(admin, user_id, update) ==
    IF update.email # Unset /\ update.email # users[user_id].email
       /\ EmailTaken(update.email) THEN 400
    ELSE IF update.username # Unset /\ update.username # users[user_id].username
            /\ UsernameTaken(update.username) THEN 400
    ELSE 200

\* update_user, the tests before the fields are set: the email and the
\* username must be free, and an admin may neither deactivate nor demote
\* their own account.
update_user_status(admin, user_id, update) ==
    IF update.email # Unset /\ update.email # users[user_id].email
       /\ EmailTaken(update.email) THEN 400
    ELSE IF update.username # Unset /\ update.username # users[user_id].username
            /\ UsernameTaken(update.username) THEN 400
    ELSE IF update.is_active = "false" /\ user_id = admin THEN 400
    ELSE IF update.role = "user" /\ user_id = admin THEN 400
    ELSE 200

\* PUT /api/auth/users/{user_id}
update_user ==
    /\ \E token \in IssuedTokens, user_id \in RequestIds(users),
          update \in UserUpdates :
         LET access == IF get_current_admin_user(token) # 200
                       THEN get_current_admin_user(token)
                       ELSE IF user_id \notin DOMAIN users THEN 404
                       ELSE update_user_status(get_current_user(token),
                                               user_id, update)
         IN  /\ resp' = AuthResponse("update_user", token, user_id, access,
                                     <<update.email, update.username,
                                       update.role, update.is_active>>)
             /\ users' = IF access = 200
                         THEN [users EXCEPT ![user_id] = UpdatedUser(@, update)]
                         ELSE users
    /\ UNCHANGED <<taxonomies, bibmaps, nodes, connections, references, media>>
    /\ UNCHANGED authVars

\* The ids of the rows of a table that the user owns.
OwnedBy(table, user_id) == {i \in DOMAIN table : table[i].user_id = user_id}

\* Mutant of delete_user_status: an admin may delete any account.
delete_user_status_no_self_test(admin, user_id) == 204

\* delete_user: an admin may not delete their own account.
delete_user_status(admin, user_id) == IF user_id = admin THEN 400 ELSE 204

\* DELETE /api/auth/users/{user_id}: the user goes with their maps,
\* references, media and settings (cascade of the User relationships); their
\* taxonomies stay without owner.
delete_user ==
    /\ \E token \in IssuedTokens, user_id \in RequestIds(users) :
         LET access == IF get_current_admin_user(token) # 200
                       THEN get_current_admin_user(token)
                       ELSE IF user_id \notin DOMAIN users THEN 404
                       ELSE delete_user_status(get_current_user(token), user_id)
             maps == OwnedBy(bibmaps, user_id)
             gone == {n \in DOMAIN nodes : nodes[n].bibmap_id \in maps}
         IN  /\ resp' = AuthResponse("delete_user", token, user_id, access, <<>>)
             /\ IF access # 204
                THEN UNCHANGED <<users, taxonomies, bibmaps, nodes, connections,
                                 references, media, settings>>
                ELSE /\ users' = WithoutRows(users, {user_id})
                     /\ taxonomies' =
                          [t \in DOMAIN taxonomies |->
                             IF taxonomies[t].user_id = user_id
                             THEN [taxonomies[t] EXCEPT !.user_id = NoUser]
                             ELSE taxonomies[t]]
                     /\ bibmaps' = WithoutRows(bibmaps, maps)
                     /\ nodes' = WithoutRows(nodes, gone)
                     /\ connections' =
                          WithoutRows(connections,
                             {c \in DOMAIN connections :
                                 connections[c].bibmap_id \in maps}
                                \cup ConnectionsOfNodes(gone))
                     /\ references' = WithoutRows(references,
                                                  OwnedBy(references, user_id))
                     /\ media' = WithoutRows(media, OwnedBy(media, user_id))
                     /\ settings' = WithoutRows(settings, {user_id})
    /\ UNCHANGED <<inflight, oauth_states, callbacks, history>>

\* Nobody is registered.
InitAuth ==
    /\ users = <<>>
    /\ taxonomies = <<>>
    /\ bibmaps = <<>>
    /\ nodes = <<>>
    /\ connections = <<>>
    /\ references = <<>>
    /\ media = <<>>
    /\ resp = NoResponse
    /\ MigratorIdle
    /\ AuthIdle

NextAuth ==
    \/ register /\ UNCHANGED migVars
    \/ login_json /\ UNCHANGED migVars
    \/ get_me /\ UNCHANGED migVars
    \/ update_me /\ UNCHANGED migVars
    \/ create_user /\ UNCHANGED migVars
    \/ update_user /\ UNCHANGED migVars
    \/ delete_user /\ UNCHANGED migVars

SpecAuth == InitAuth /\ [][NextAuth]_vars

-----------------------------------------------------------------------------
(* Claims about accounts.                                                   *)

\* C21: a successful register adds exactly one user, with role admin when
\* the users table was empty (the first registration) and role user
\* otherwise; a register rejected for a stored email or username leaves the
\* users table as it was.
C21_FirstUserIsAdmin ==
    [][resp'.op = "register" =>
         IF resp'.status = 201
         THEN /\ resp'.id \notin DOMAIN users
              /\ DOMAIN users' = DOMAIN users \cup {resp'.id}
              /\ \A u \in DOMAIN users : users'[u] = users[u]
              /\ users'[resp'.id].email = resp'.request[1]
              /\ users'[resp'.id].username = resp'.request[2]
              /\ users'[resp'.id].role =
                    (IF DOMAIN users = {} THEN "admin" ELSE "user")
         ELSE /\ resp'.status = 400
              /\ EmailTaken(resp'.request[1]) \/ UsernameTaken(resp'.request[2])
              /\ users' = users]_vars

\* C21 witness: a second registration was served and made a user of role
\* user beside the admin.
C21_Witness ==
    /\ resp.op = "register" /\ resp.status = 201
    /\ users[resp.id].role = "user"
    /\ \E u \in DOMAIN users : u # resp.id /\ users[u].role = "admin"

\* The request is served with the token's user as admin.
ServedAsAdmin(token) == get_current_admin_user(token) = 200

\* C22: delete_user of the calling admin's own account, and update_user of
\* it with is_active = false or role = user, are answered 400 and leave the
\* users table as it was, whatever else the body sets.
C22_NoSelfLockout ==
    [][(/\ resp'.op \in {"update_user", "delete_user"}
        /\ ServedAsAdmin(resp'.user)
        /\ resp'.id = get_current_user(resp'.user)
        /\ \/ resp'.op = "delete_user"
           \/ resp'.request[4] = "false"
           \/ resp'.request[3] = "user")
          => (resp'.status = 400 /\ users' = users)]_vars

\* C22 witness: an admin's update of their own account that deactivates it
\* and sets a free email was answered 400.
C22_Witness ==
    /\ resp.op = "update_user" /\ resp.status = 400
    /\ ServedAsAdmin(resp.user) /\ resp.id = resp.user
    /\ resp.request[4] = "false"
    /\ resp.request[1] # Unset /\ ~EmailTaken(resp.request[1])

\* The stored user is deactivated.
Deactivated(user_id) == user_id \in DOMAIN users /\ ~users[user_id].is_active

\* C23: while a user is deactivated, login_json with the user's username or
\* email and password is answered 403, and a request with a token of the
\* user is answered 401, is not served as the user and changes no user.
C23_InactiveCannotAct ==
    [][/\ (/\ resp'.op = "login_json"
           /\ resp'.request[2] = "right"
           /\ \E u \in DOMAIN users :
                 /\ Deactivated(u)
                 /\ resp'.request[1] \in {users[u].email, users[u].username})
          => (resp'.status = 403 /\ history'.tokens = history.tokens)
       /\ (/\ resp'.op \in {"get_me", "update_me", "create_user", "update_user",
                           "delete_user"}
           /\ Deactivated(resp'.user))
          => (/\ resp'.status = 401
              /\ users' = users
              /\ resp'.op = "get_me" => resp'.id # resp'.user)]_vars

\* C23 witness: a token was issued to a user who is now deactivated, and
\* get_me with it was answered 401.
C23_Witness ==
    /\ resp.op = "get_me" /\ resp.status = 401
    /\ resp.user \in history.tokens
    /\ Deactivated(resp.user)

\* An active user with role admin is stored.
ActiveAdmin ==
    \E u \in DOMAIN users : users[u].role = "admin" /\ users[u].is_active

\* C27: from the first registration on the users table holds an active
\* user with role admin, after any register, create_user, update_user,
\* delete_user and update_me.
C27_AlwaysAnAdmin ==
    [][(DOMAIN users # {} \/ (resp'.op = "register" /\ resp'.status = 201))
         => ActiveAdmin']_vars

\* C27 witness: one of two admins took the admin role from the other, and
\* one active admin is left.
C27_Witness ==
    /\ resp.op = "update_user" /\ resp.status = 200
    /\ resp.request[3] = "user"
    /\ resp.id \in DOMAIN users /\ users[resp.id].role = "user"
    /\ Cardinality({u \in DOMAIN users :
                       users[u].role = "admin" /\ users[u].is_active}) = 1

-----------------------------------------------------------------------------
(* Accounts made by overlapping calls.  register is a def handler: it runs  *)
(* in a worker thread, and other calls run between its queries and its      *)
(* commit.  get_current_user and google_callback are async def: they run on *)
(* the event loop and give it up only at an await, which google_callback    *)
(* does while it asks Google, after the state check.                        *)

\* The registrations under way at a time.
MaxInflight == 2

\* The OAuth states google_login issues.
MaxStates == 2

\* X-MS-CLIENT-PRINCIPAL-ID, and the id in Google's userinfo
OAuthIds == {"o1"}

\* register up to its count query, in its thread.
register_begin ==
    /\ \E email \in Emails, username \in Usernames :
         LET q == register_queries(email, username)
         IN  IF q.status = 400
             THEN /\ resp' = AuthResponse("register", NoUser, 0, 400,
                                          <<email, username>>)
                  /\ UNCHANGED inflight
             ELSE /\ Cardinality(inflight) < MaxInflight
                  /\ inflight' = inflight \cup
                       {[email |-> email, username |-> username,
                         is_first_user |-> q.is_first_user]}
                  /\ resp' = AuthResponse("register", NoUser, 0, 0,
                                          <<email, username>>)
    /\ UNCHANGED <<users, taxonomies, bibmaps, nodes, connections, references,
                   media>>
    /\ UNCHANGED <<settings, oauth_states, callbacks, history>>

\* register from db.add on: the commit fails on the unique email and
\* username (500), or stores the user with the role found earlier.
register_commit ==
    /\ \E call \in inflight :
         LET id == NewId(users)
         IN  /\ inflight' = inflight \ {call}
             /\ IF EmailTaken(call.email) \/ UsernameTaken(call.username)
                THEN /\ resp' = AuthResponse("register", NoUser, 0, 500,
                                   <<call.email, call.username>>)
                     /\ UNCHANGED users
                ELSE /\ id <= MaxUsers
                     /\ users' = users @@
                          (id :> User(call.email, call.username,
                                      first_user_role(call.is_first_user), TRUE))
                     /\ resp' = AuthResponse("register", NoUser, id, 201,
                                   <<call.email, call.username>>)
    /\ UNCHANGED <<taxonomies, bibmaps, nodes, connections, references, media>>
    /\ UNCHANGED <<settings, oauth_states, callbacks, history>>

\* base_username, then base_username1: the first that no user has.
generated_username(email) ==
    IF ~UsernameTaken(email) THEN email
    ELSE IF email = "e1" THEN "e11" ELSE "e21"

\* The user of an OAuth provider's id.
oauth_user(provider, oauth_id) ==
    {u \in DOMAIN users :
        users[u].oauth_provider = provider /\ users[u].oauth_id = oauth_id}

\* The user row an OAuth login makes.
oauth_new_user(provider, oauth_id, email) ==
    [User(email, generated_username(email),
          first_user_role(DOMAIN users = {}), TRUE)
       EXCEPT !.oauth_provider = provider, !.oauth_id = oauth_id]

\* The users table after the user with this email was linked to the provider.
oauth_linked(provider, oauth_id, email) ==
    [u \in DOMAIN users |->
       IF users[u].email = email
       THEN [users[u] EXCEPT !.oauth_provider = provider, !.oauth_id = oauth_id]
       ELSE users[u]]

\* get_current_user for a request without token and with the Azure Easy
\* Auth headers (here of GET /api/auth/me): the user of the principal id,
\* else the user of the email, who is linked, else a new user.  email is ""
\* when the headers give none; allowed is what is_email_allowed finds.
azure_easy_auth ==
    /\ \E oauth_id \in OAuthIds, email \in Emails \cup {""}, allowed \in BOOLEAN :
         LET known == oauth_user("azure", oauth_id)
             id == NewId(users)
             served(u) == IF users'[u].is_active THEN u ELSE NoUser
             answer(u) == AuthResponse("azure_easy_auth", NoUser, u,
                             IF u = NoUser THEN 401 ELSE 200, <<oauth_id, email>>)
         IN  IF known # {}
             THEN /\ UNCHANGED users
                  /\ resp' = answer(served(CHOOSE u \in known : TRUE))
             ELSE IF email = "" \/ ~allowed
             THEN /\ UNCHANGED users
                  /\ resp' = answer(NoUser)
             ELSE IF EmailTaken(email)
             THEN /\ users' = oauth_linked("azure", oauth_id, email)
                  /\ resp' = answer(served(CHOOSE u \in DOMAIN users :
                                              users[u].email = email))
             ELSE /\ id <= MaxUsers
                  /\ users' = users @@
                       (id :> oauth_new_user("azure", oauth_id, email))
                  /\ resp' = answer(id)
    /\ UNCHANGED <<taxonomies, bibmaps, nodes, connections, references, media>>
    /\ UNCHANGED authVars

\* A redirect: body holds the error of the location, or nothing.
Redirect(op, state, status, error, request) ==
    [Response(op, NoUser, state, status, error) EXCEPT !.request = request]

\* GET /api/auth/google/login: a new state is stored, and the states older
\* than ten minutes (those up to some k) are dropped.
google_login ==
    /\ history.issued < MaxStates
    /\ LET state == history.issued + 1
       IN  /\ \E k \in 0..history.issued :
                oauth_states' = {s \in oauth_states \cup {state} : s > k}
           /\ history' = [history EXCEPT !.issued = state]
           /\ resp' = Redirect("google_login", state, 307, <<>>, <<>>)
    /\ UNCHANGED <<users, taxonomies, bibmaps, nodes, connections, references,
                   media>>
    /\ UNCHANGED <<settings, inflight, callbacks>>

\* Mutant of del_oauth_state: the used state is kept.
del_oauth_state_kept(state) == oauth_states

\* del oauth_states[state]
del_oauth_state(state) == oauth_states \ {state}

\* GET /api/auth/google/callback up to its first await.  state 0 is no
\* state parameter.  resp.body is <<"pending">> while the call goes on.
google_callback ==
    /\ \E error \in {"", "access_denied"}, code \in {"", "code"},
          state \in 0..MaxStates :
         LET request == <<error, code>>
         IN  IF error # ""
             THEN /\ resp' = Redirect("google_callback", state, 307,
                                      <<"google_oauth_error">>, request)
                  /\ UNCHANGED <<oauth_states, callbacks, history>>
             ELSE IF code = ""
             THEN /\ resp' = Redirect("google_callback", state, 307,
                                      <<"no_code">>, request)
                  /\ UNCHANGED <<oauth_states, callbacks, history>>
             ELSE IF state = 0 \/ state \notin oauth_states
             THEN /\ resp' = Redirect("google_callback", state, 307,
                                      <<"invalid_state">>, request)
                  /\ UNCHANGED <<oauth_states, callbacks, history>>
             ELSE /\ oauth_states' = del_oauth_state(state)
                  /\ callbacks' = callbacks \cup {state}
                  /\ history' = [history EXCEPT !.accepted = Append(@, state)]
                  /\ resp' = Redirect("google_callback", state, 0,
                                      <<"pending">>, request)
    /\ UNCHANGED <<users, taxonomies, bibmaps, nodes, connections, references,
                   media>>
    /\ UNCHANGED <<settings, inflight>>

\* What the two requests to Google end in.
GoogleAnswers ==
    {"token_exchange_failed", "userinfo_failed", "missing_user_info", "ok"}

\* google_callback after Google's answers: the user of the Google id, else
\* the user of the email, who is linked, else a new user; a deactivated user
\* is turned away before the commit.
google_callback_finish ==
    /\ \E state \in callbacks, answer \in GoogleAnswers, google_id \in OAuthIds,
          email \in Emails :
         LET known == oauth_user("google", google_id)
             id == NewId(users)
             request == <<google_id, email>>
             user == IF known # {} THEN CHOOSE u \in known : TRUE
                     ELSE IF EmailTaken(email)
                     THEN CHOOSE u \in DOMAIN users : users[u].email = email
                     ELSE id
         IN  /\ callbacks' = callbacks \ {state}
             /\ IF answer # "ok"
                THEN /\ resp' = Redirect("google_callback", state, 307,
                                         <<answer>>, request)
                     /\ UNCHANGED <<users, history>>
                ELSE IF user \in DOMAIN users /\ ~users[user].is_active
                THEN /\ resp' = Redirect("google_callback", state, 307,
                                         <<"account_disabled">>, request)
                     /\ UNCHANGED <<users, history>>
                ELSE /\ user = id => id <= MaxUsers
                     /\ users' = IF known # {} THEN users
                                 ELSE IF EmailTaken(email)
                                 THEN oauth_linked("google", google_id, email)
                                 ELSE users @@
                                        (id :> oauth_new_user("google", google_id,
                                                              email))
                     /\ history' = [history EXCEPT !.tokens = @ \cup {user}]
                     /\ resp' = Redirect("google_callback", state, 302, <<>>,
                                         request)
    /\ UNCHANGED <<taxonomies, bibmaps, nodes, connections, references, media>>
    /\ UNCHANGED <<settings, inflight, oauth_states>>

NextOAuth ==
    \/ register_begin /\ UNCHANGED migVars
    \/ register_commit /\ UNCHANGED migVars
    \/ azure_easy_auth /\ UNCHANGED migVars
    \/ google_login /\ UNCHANGED migVars
    \/ google_callback /\ UNCHANGED migVars
    \/ google_callback_finish /\ UNCHANGED migVars

SpecOAuth == InitAuth /\ [][NextOAuth]_vars

-----------------------------------------------------------------------------
(* Claims about accounts made by overlapping calls *)

Admins == {u \in DOMAIN users : users[u].role = "admin"}

\* C26: when user creations interleave on an empty users table, at most one
\* of the created users receives the admin role.
C26_OneFirstAdmin ==
    Cardinality({u \in Admins : users[u].is_active}) <= 1

\* The state in a sequence of accepted states more than once.
UsedTwice(accepted) ==
    \E i, j \in 1..Len(accepted) : i < j /\ accepted[i] = accepted[j]

\* The part of C29 every callback keeps: a callback goes on only with a
\* state that was issued and is stored, which it removes; no state is
\* accepted twice; a callback whose state is not stored changes no user and
\* does not go on to a user lookup.
CallbackStateRule ==
    resp'.op = "google_callback" /\ resp'.request[1] \in {"", "access_denied"}
    => LET state == resp'.id
       IN  /\ resp'.body = <<"pending">>
              => /\ state \in oauth_states
                 /\ state \in 1..history.issued
                 /\ state \notin oauth_states'
                 /\ state \in callbacks'
           /\ ~UsedTwice(history'.accepted)
           /\ state \notin oauth_states
              => users' = users /\ callbacks' = callbacks

-----------------------------------------------------------------------------
(* routers/taxonomies.py.  Here a taxonomies row is [name, user_id,         *)
(* is_global]; a response body holds the ids of the taxonomies it shows.    *)

\* The taxonomies table holds up to two rows.
MaxTaxonomyRows == 2

TaxonomyNames == {"x", "y"}

\* The taxonomies list_taxonomies shows to a user.
VisibleTaxonomies(user) ==
    {t \in DOMAIN taxonomies :
        IF user # NoUser
        THEN \/ users[user].role = "admin"
             \/ taxonomies[t].user_id = user
             \/ taxonomies[t].is_global
             \/ taxonomies[t].user_id = NoUser
        ELSE taxonomies[t].is_global \/ taxonomies[t].user_id = NoUser}

\* GET /api/taxonomies/
list_taxonomies ==
    /\ \E token \in Tokens :
         resp' = Response("list_taxonomies", token, 0, 200,
                          SortedSeq(VisibleTaxonomies(get_current_user(token))))
    /\ UNCHANGED <<users, taxonomies, connections, bibmaps, nodes, references,
                   media>>

\* create_taxonomy's query: the taxonomies with the name among the user's
\* own and the global ones, or among the ownerless ones.
SameNameForUser(name, user) ==
    {t \in DOMAIN taxonomies :
        /\ taxonomies[t].name = name
        /\ IF user # NoUser
           THEN taxonomies[t].user_id = user \/ taxonomies[t].is_global
           ELSE taxonomies[t].user_id = NoUser}

\* POST /api/taxonomies/
create_taxonomy ==
    /\ \E token \in Tokens, name \in TaxonomyNames :
         LET user == get_current_user(token)
             id == NewId(taxonomies)
         IN  IF SameNameForUser(name, user) # {}
             THEN /\ resp' = [Response("create_taxonomy", token, 0, 400, <<>>)
                                EXCEPT !.request = <<name>>]
                  /\ UNCHANGED taxonomies
             ELSE /\ id <= MaxTaxonomyRows
                  /\ taxonomies' = taxonomies @@
                       (id :> [name |-> name, user_id |-> user,
                               is_global |-> FALSE])
                  /\ resp' = [Response("create_taxonomy", token, id, 201, <<id>>)
                                EXCEPT !.request = <<name>>]
    /\ UNCHANGED <<users, connections, bibmaps, nodes, references, media>>

\* GET /api/taxonomies/{taxonomy_id}
get_taxonomy ==
    /\ \E token \in Tokens, id \in RequestIds(taxonomies) :
         resp' = IF id \notin DOMAIN taxonomies
                 THEN Response("get_taxonomy", token, id, 404, <<>>)
                 ELSE IF taxonomies[id].is_global
                 THEN Response("get_taxonomy", token, id, 200, <<id>>)
                 ELSE IF ~check_ownership(get_current_user(token),
                                          taxonomies[id].user_id)
                 THEN Response("get_taxonomy", token, id, 403, <<>>)
                 ELSE Response("get_taxonomy", token, id, 200, <<id>>)
    /\ UNCHANGED <<users, taxonomies, connections, bibmaps, nodes, references,
                   media>>

\* update_taxonomy and delete_taxonomy: who may change the taxonomy.
MayChangeTaxonomy(user, id) ==
    IF taxonomies[id].is_global
    THEN user # NoUser /\ users[user].role = "admin"
    ELSE check_ownership(user, taxonomies[id].user_id)

\* update_taxonomy's query: other taxonomies with the name, among the
\* caller's own and the global ones, or any for a caller without user.
NameCollision(name, id, user) ==
    {t \in DOMAIN taxonomies \ {id} :
        /\ taxonomies[t].name = name
        /\ user # NoUser
           => taxonomies[t].user_id = user \/ taxonomies[t].is_global}

\* PUT /api/taxonomies/{taxonomy_id}: the body sets name, or only color
\* (name "").
update_taxonomy ==
    /\ \E token \in Tokens, id \in RequestIds(taxonomies),
          name \in TaxonomyNames \cup {""} :
         LET user == get_current_user(token)
             answer(status, body) ==
                 [Response("update_taxonomy", token, id, status, body)
                    EXCEPT !.request = <<name>>]
         IN  IF id \notin DOMAIN taxonomies
             THEN resp' = answer(404, <<>>) /\ UNCHANGED taxonomies
             ELSE IF ~MayChangeTaxonomy(user, id)
             THEN resp' = answer(403, <<>>) /\ UNCHANGED taxonomies
             ELSE IF name # "" /\ NameCollision(name, id, user) # {}
             THEN resp' = answer(400, <<>>) /\ UNCHANGED taxonomies
             ELSE /\ taxonomies' = IF name = "" THEN taxonomies
                                   ELSE [taxonomies EXCEPT ![id].name = name]
                  /\ resp' = answer(200, <<id>>)
    /\ UNCHANGED <<users, connections, bibmaps, nodes, references, media>>

\* POST /api/taxonomies/global
create_global_taxonomy ==
    /\ \E token \in Tokens, name \in TaxonomyNames :
         LET user == get_current_user(token)
             id == NewId(taxonomies)
             answer(i, status, body) ==
                 [Response("create_global_taxonomy", token, i, status, body)
                    EXCEPT !.request = <<name>>]
         IN  IF user = NoUser \/ users[user].role # "admin"
             THEN resp' = answer(0, 403, <<>>) /\ UNCHANGED taxonomies
             ELSE IF \E t \in DOMAIN taxonomies :
                        taxonomies[t].name = name /\ taxonomies[t].is_global
             THEN resp' = answer(0, 400, <<>>) /\ UNCHANGED taxonomies
             ELSE /\ id <= MaxTaxonomyRows
                  /\ taxonomies' = taxonomies @@
                       (id :> [name |-> name, user_id |-> user,
                               is_global |-> TRUE])
                  /\ resp' = answer(id, 201, <<id>>)
    /\ UNCHANGED <<users, connections, bibmaps, nodes, references, media>>

\* The taxonomy handlers, and the media handlers that take taxonomy_ids.
NextTax ==
    \/ list_taxonomies /\ UNCHANGED <<migVars, authVars>>
    \/ create_taxonomy /\ UNCHANGED <<migVars, authVars>>
    \/ get_taxonomy /\ UNCHANGED <<migVars, authVars>>
    \/ update_taxonomy /\ UNCHANGED <<migVars, authVars>>
    \/ create_global_taxonomy /\ UNCHANGED <<migVars, authVars>>
    \/ create_media /\ UNCHANGED <<migVars, authVars>>
    \/ update_media /\ UNCHANGED <<migVars, authVars>>

SpecTax == InitAccess /\ [][NextTax]_vars

-----------------------------------------------------------------------------
(* Claims about taxonomies *)

\* C24: no owner, and neither the ownerless group, has two of its own
\* taxonomies with the same name, and no user-owned taxonomy has the name of
\* a global taxonomy visible to that user; a request that would create such
\* a duplicate returns 400 and stores nothing.
C24_NoDuplicateNames ==
    \A a, b \in DOMAIN taxonomies :
        a # b /\ taxonomies[a].name = taxonomies[b].name
        => /\ taxonomies[a].user_id # taxonomies[b].user_id
           /\ ~(/\ taxonomies[a].user_id # NoUser /\ ~taxonomies[a].is_global
                /\ taxonomies[b].is_global)

\* The taxonomies whose name and color the last response carries.
TaxonomiesInResponse ==
    IF resp.status \notin {200, 201} THEN {}
    ELSE IF resp.op \in {"list_taxonomies", "get_taxonomy", "create_taxonomy",
                         "update_taxonomy", "create_global_taxonomy"}
    THEN {resp.body[k] : k \in DOMAIN resp.body}
    ELSE IF resp.op \in {"create_media", "update_media"}
    THEN media[resp.id].taxonomies
    ELSE {}

\* C30: a non-admin authenticated user never receives, in the response of
\* the taxonomy list or get, or of a medium created or updated with
\* taxonomy_ids, a non-global taxonomy that is owned by a different user.
C30_PrivateStaysPrivate ==
    resp.user # NoUser /\ users[resp.user].role # "admin"
    => \A t \in TaxonomiesInResponse :
          \/ taxonomies[t].is_global
          \/ taxonomies[t].user_id \in {NoUser, resp.user}

-----------------------------------------------------------------------------
(* routers/settings.py.  A user_settings row holds the seven validated      *)
(* preferences; snap_to_grid, auto_save and email_notifications, which no   *)
(* handler tests, are left out.  Colors are sequences of characters.        *)

SettingsFields ==
    {"theme", "default_node_shape", "default_node_color", "default_text_color",
     "grid_size", "default_refs_page_size", "default_refs_sort"}

\* UserSettings column defaults, which reset_settings sets as well.
DefaultSettings ==
    [theme |-> "system",
     default_node_shape |-> "rectangle",
     default_node_color |-> <<"#", "3", "B", "8", "2", "F", "6">>,
     default_text_color |-> <<"#", "F", "F", "F", "F", "F", "F">>,
     grid_size |-> 20,
     default_refs_page_size |-> 20,
     default_refs_sort |-> "imported-desc"]

\* The values a PUT /api/settings sends for a field, beside null.
SettingsValues(field) ==
    CASE field = "theme" -> {"dark", "blue"}
      [] field = "default_node_shape" -> {"ellipse", "star"}
      [] field = "default_node_color" ->
            {<<"#", "1", "1", "1", "1", "1", "1">>, <<"r", "e", "d">>}
      [] field = "default_text_color" ->
            {<<"#", "0", "0", "0">>}
      [] field = "grid_size" -> {4, 5, 101}
      [] field = "default_refs_page_size" -> {50, 30}
      [] field = "default_refs_sort" -> {"random"}

\* What the body gives for a field: null, or a value.
SettingsInputs(field) ==
    {[null |-> TRUE, value |-> DefaultSettings[field]]}
    \cup {[null |-> FALSE, value |-> v] : v \in SettingsValues(field)}

\* model_dump(exclude_unset=True) of a body that sets one or two fields:
\* the fields supplied, those of them that are null, and the values.
SettingsUpdates ==
    {[supplied |-> {f1, f2},
      nulls |-> {f \in {f1, f2} : IF f = f1 THEN i1.null ELSE i2.null},
      values |-> [f \in SettingsFields |->
                    IF f = f1 THEN i1.value
                    ELSE IF f = f2 THEN i2.value ELSE DefaultSettings[f]]] :
        <<f1, i1, f2, i2>> \in
            {<<g1, j1, g2, j2>> \in
                UNION {{<<g1, j1, g2, j2>> : j1 \in SettingsInputs(g1),
                                             j2 \in SettingsInputs(g2)} :
                         <<g1, g2>> \in SettingsFields \X SettingsFields} :
                g1 = g2 => j1 = j2}}

\* color.startswith("#") and len(color) == 7
ColorFormat(color) == Len(color) = 7 /\ color[1] = "#"

\* One test of update_settings on update_data: 0 when it passes, 400 when
\* it raises HTTPException, 500 when the test itself raises on None.
SettingsTest(update, field) ==
    LET value == update.values[field]
        null == field \in update.nulls
    IN  IF field \notin update.supplied THEN 0
        ELSE CASE field = "theme" ->
                    IF null \/ value \notin {"light", "dark", "system"}
                    THEN 400 ELSE 0
               [] field = "default_node_shape" ->
                    IF null \/ value \notin {"rectangle", "rounded-rectangle",
                                             "ellipse", "diamond"}
                    THEN 400 ELSE 0
               [] field \in {"default_node_color", "default_text_color"} ->
                    IF null THEN 500
                    ELSE IF ~ColorFormat(value) THEN 400 ELSE 0
               [] field = "grid_size" ->
                    IF null THEN 500
                    ELSE IF ~(5 <= value /\ value <= 100) THEN 400 ELSE 0
               [] field = "default_refs_page_size" ->
                    IF null \/ value \notin {20, 50, 100, 200} THEN 400 ELSE 0
               [] field = "default_refs_sort" ->
                    IF null \/ value \notin
                         {"imported-desc", "imported-asc", "year-desc",
                          "year-asc", "title-asc", "title-desc", "author-asc",
                          "author-desc"}
                    THEN 400 ELSE 0

\* The tests in the order of the code.
SettingsTests ==
    <<"theme", "default_node_shape", "default_node_color",
      "default_text_color", "grid_size", "default_refs_page_size",
      "default_refs_sort">>

\* update_settings: the status the first failing test gives, or 200.
update_settings_status(update) ==
    LET failed == {k \in DOMAIN SettingsTests :
                      SettingsTest(update, SettingsTests[k]) # 0}
    IN  IF failed = {} THEN 200
        ELSE SettingsTest(update,
                 SettingsTests[CHOOSE k \in failed : \A j \in failed : k <= j])

\* The user_settings table after get_or_create_settings.
get_or_create_settings(user) ==
    IF user \in DOMAIN settings THEN settings
    ELSE settings @@ (user :> DefaultSettings)

SettingsResponse(op, token, status, update) ==
    [Response(op, token, 0, status, <<>>) EXCEPT !.request = update]

\* A request without body.
NoUpdate == [supplied |-> {}, nulls |-> {}, values |-> DefaultSettings]

\* GET /api/settings
get_settings ==
    /\ \E token \in Tokens :
         IF get_current_active_user(token) # 200
         THEN /\ resp' = SettingsResponse("get_settings", token, 401, NoUpdate)
              /\ UNCHANGED settings
         ELSE /\ settings' = get_or_create_settings(get_current_user(token))
              /\ resp' = SettingsResponse("get_settings", token, 200, NoUpdate)
    /\ UNCHANGED <<users, taxonomies, bibmaps, nodes, connections, references,
                   media>>
    /\ UNCHANGED <<inflight, oauth_states, callbacks, history>>

\* PUT /api/settings
update_settings ==
    /\ \E token \in Tokens, update \in SettingsUpdates :
         LET user == get_current_user(token)
             status == update_settings_status(update)
             created == get_or_create_settings(user)
         IN  IF get_current_active_user(token) # 200
             THEN /\ resp' = SettingsResponse("update_settings", token, 401,
                                              update)
                  /\ UNCHANGED settings
             ELSE /\ settings' =
                       IF status # 200 THEN created
                       ELSE [created EXCEPT ![user] =
                               [f \in SettingsFields |->
                                  IF f \in update.supplied
                                  THEN update.values[f] ELSE created[user][f]]]
                  /\ resp' = SettingsResponse("update_settings", token, status,
                                              update)
    /\ UNCHANGED <<users, taxonomies, bibmaps, nodes, connections, references,
                   media>>
    /\ UNCHANGED <<inflight, oauth_states, callbacks, history>>

\* POST /api/settings/reset
reset_settings ==
    /\ \E token \in Tokens :
         IF get_current_active_user(token) # 200
         THEN /\ resp' = SettingsResponse("reset_settings", token, 401, NoUpdate)
              /\ UNCHANGED settings
         ELSE /\ settings' =
                   [get_or_create_settings(get_current_user(token))
                      EXCEPT ![get_current_user(token)] = DefaultSettings]
              /\ resp' = SettingsResponse("reset_settings", token, 200, NoUpdate)
    /\ UNCHANGED <<users, taxonomies, bibmaps, nodes, connections, references,
                   media>>
    /\ UNCHANGED <<inflight, oauth_states, callbacks, history>>

\* An admin (id 1) is registered and active, user 2 was deactivated; no
\* settings are stored.
InitSettings ==
    /\ users = (1 :> [role |-> "admin", is_active |-> TRUE])
               @@ (2 :> [role |-> "user", is_active |-> FALSE])
    /\ taxonomies = <<>>
    /\ bibmaps = <<>>
    /\ nodes = <<>>
    /\ connections = <<>>
    /\ references = <<>>
    /\ media = <<>>
    /\ resp = NoResponse
    /\ MigratorIdle
    /\ AuthIdle

NextSettings ==
    \/ get_settings /\ UNCHANGED migVars
    \/ update_settings /\ UNCHANGED migVars
    \/ reset_settings /\ UNCHANGED migVars

SpecSettings == InitSettings /\ [][NextSettings]_vars

-----------------------------------------------------------------------------
(* Claims about settings *)

\* The constraints C25 lists, on a value of a field.
MeetsConstraint(field, value) ==
    CASE field = "theme" -> value \in {"light", "dark", "system"}
      [] field = "default_node_shape" ->
            value \in {"rectangle", "rounded-rectangle", "ellipse", "diamond"}
      [] field \in {"default_node_color", "default_text_color"} ->
            Len(value) = 7 /\ value[1] = "#"
      [] field = "grid_size" -> value \in 5..100
      [] field = "default_refs_page_size" -> value \in {20, 50, 100, 200}
      [] field = "default_refs_sort" ->
            value \in {"imported-desc", "imported-asc", "year-desc", "year-asc",
                       "title-asc", "title-desc", "author-asc", "author-desc"}

\* A supplied field of the body is null or breaks its constraint.
FailsValidation(update) ==
    \E f \in update.supplied :
        f \in update.nulls \/ ~MeetsConstraint(f, update.values[f])

\* C25: an update_settings call with a supplied field that fails validation
\* returns 400 and stores none of the supplied fields, and the stored
\* settings of every user satisfy all the constraints after any sequence of
\* get_settings, update_settings and reset_settings calls.
C25_AllOrNothing ==
    [][/\ (/\ resp'.op = "update_settings" /\ resp'.status # 401
           /\ FailsValidation(resp'.request))
          => /\ resp'.status = 400
             /\ settings' = get_or_create_settings(resp'.user)
       /\ \A u \in DOMAIN settings' : \A f \in SettingsFields :
             MeetsConstraint(f, settings'[u][f])]_vars

-----------------------------------------------------------------------------
(* The handlers that store a legend_category *)

\* The handlers that write references and media.
NextLegend ==
    \/ create_reference /\ UNCHANGED <<migVars, authVars>>
    \/ import_bibtex /\ UNCHANGED <<migVars, authVars>>
    \/ update_reference /\ UNCHANGED <<migVars, authVars>>
    \/ update_reference_from_bibtex /\ UNCHANGED <<migVars, authVars>>
    \/ create_media /\ UNCHANGED <<migVars, authVars>>
    \/ update_media /\ UNCHANGED <<migVars, authVars>>

\* One user, the admin the first registration made, is registered; no
\* reference or medium exists yet.
InitLegend ==
    /\ users = (1 :> [role |-> "admin", is_active |-> TRUE])
    /\ taxonomies = <<>>
    /\ bibmaps = <<>>
    /\ nodes = <<>>
    /\ connections = <<>>
    /\ references = <<>>
    /\ media = <<>>
    /\ resp = NoResponse
    /\ MigratorIdle
    /\ AuthIdle

SpecLegend == InitLegend /\ [][NextLegend]_vars

\* A node with this background color and no taxonomy.
ColoredNode(color) ==
    [bibmap_id |-> 1, background_color |-> color, taxonomies |-> {}]

\* The rows of a table keep their legend_category upper-case, and the
\* matching query selects each of them for every node color that equals the
\* legend_category when letter case is ignored.
UpperCaseLegends(table) ==
    \A i \in DOMAIN table :
        table[i].legend_category # NoColor
        => /\ table[i].legend_category = Upper(table[i].legend_category)
           /\ \A color \in Colors :
                (/\ has_legend_match(ColoredNode(color))
                 /\ EqualIgnoringCase(table[i].legend_category, color))
                => matches_conditions(table[i], ColoredNode(color))

\* C28: after any sequence of create_reference, import_bibtex,
\* update_reference, update_reference_from_bibtex, create_media and
\* update_media calls, each stored non-empty legend_category equals its own
\* upper-cased form, so the equality of the matching query against the
\* upper-cased node color misses no row that matches case-insensitively.
C28_LegendUpperCase ==
    UpperCaseLegends(references) /\ UpperCaseLegends(media)

\* An import sent with the legend_category #abcdef stored its rows with
\* #ABCDEF.
C28_Witness ==
    /\ resp.op = "import_bibtex" /\ resp.status = 200
    /\ resp.body[1].imported > 0
    /\ \A k \in DOMAIN resp.body[1].references :
          references[resp.body[1].references[k]].legend_category
            = <<"#", "A", "B", "C", "D", "E", "F">>

====
